---- MODULE Spec2Model ----
(***************************************************************************)
(* Model of the Aceprep generate route (src/app/api/generate/route.ts):    *)
(* the Homework Explain segmentation and map-reduce generation pipeline.   *)
(*                                                                         *)
(* Text is modelled exactly, as a sequence of character runs.  A run       *)
(* [c |-> ch, n |-> k] stands for the character ch repeated k times.  The  *)
(* literal phrases the code searches for ("---END---", the three section   *)
(* headers, "Problem", "Homework-") are single elements whose width is the length of    *)
(* the phrase; the model's alphabet has no other way to spell them.        *)
(***************************************************************************)
EXTENDS Integers, Sequences, FiniteSets, TLC

(***************************************************************************)
(* Characters                                                              *)
(***************************************************************************)
\* "nl" is \n, "cr" is \r, "sp" is a blank: the characters JS \s matches.
\* "dot" is the bullet character U+2022.
WsChars == {"sp", "nl", "cr"}
DigitChars == {"1", "2", "3"}
\* "w" is the filler letter of running text; "A" is an upper-case letter
LetterChars == {"a", "b", "i", "v", "x", "w", "A"}
\* String.prototype.toLowerCase on one character
LowerChar(c) == IF c = "A" THEN "a" ELSE c
\* element -> number of characters
PhraseLen ==
  [END |-> 9, ASK |-> 26, ask |-> 26, MET |-> 23, PIT |-> 15, Problem |-> 7,
   Homework |-> 9]
\* element -> number of non-whitespace characters
PhraseNonWs ==
  [END |-> 9, ASK |-> 22, ask |-> 22, MET |-> 19, PIT |-> 14, Problem |-> 7,
   Homework |-> 9]
Phrases == DOMAIN PhraseLen

Ch(c) == [c |-> c, n |-> 1]
Run(c, k) == [c |-> c, n |-> k]
NL == Ch("nl")
SP == Ch("sp")
END == Ch("END")

IsWs(e) == e.c \in WsChars
Width(e) == IF e.c \in Phrases THEN PhraseLen[e.c] ELSE e.n
NonWsWidth(e) ==
  IF e.c \in Phrases THEN PhraseNonWs[e.c] ELSE IF IsWs(e) THEN 0 ELSE e.n

(***************************************************************************)
(* String primitives of the JS runtime                                     *)
(***************************************************************************)
\* the width of the elements i..j of s, summed by halves
RECURSIVE SumWidth(_, _, _)
SumWidth(s, i, j) ==
  IF i > j THEN 0
  ELSE IF i = j THEN Width(s[i])
  ELSE SumWidth(s, i, (i + j) \div 2) + SumWidth(s, ((i + j) \div 2) + 1, j)
\* String.prototype.length
StrLen(s) == SumWidth(s, 1, Len(s))

RECURSIVE SumNonWs(_, _, _)
SumNonWs(s, i, j) ==
  IF i > j THEN 0
  ELSE IF i = j THEN NonWsWidth(s[i])
  ELSE SumNonWs(s, i, (i + j) \div 2) + SumNonWs(s, ((i + j) \div 2) + 1, j)
\* s.replace(/\s/g, "").length
NonWsLen(s) == SumNonWs(s, 1, Len(s))

\* index of the first / last non-whitespace element (Len+1 / 0 when none)
FirstNonWs(s) ==
  IF \E i \in 1..Len(s) : ~IsWs(s[i])
  THEN CHOOSE i \in 1..Len(s) : ~IsWs(s[i]) /\ \A j \in 1..(i - 1) : IsWs(s[j])
  ELSE Len(s) + 1
LastNonWs(s) ==
  IF \E i \in 1..Len(s) : ~IsWs(s[i])
  THEN CHOOSE i \in 1..Len(s) : ~IsWs(s[i]) /\ \A j \in (i + 1)..Len(s) : IsWs(s[j])
  ELSE 0

\* String.prototype.trim / trimEnd
Trim(s) == SubSeq(s, FirstNonWs(s), LastNonWs(s))
TrimEnd(s) == SubSeq(s, 1, LastNonWs(s))

\* String.prototype.toLowerCase
ToLower(s) == [i \in 1..Len(s) |-> [c |-> LowerChar(s[i].c), n |-> s[i].n]]

\* s.endsWith("---END---")
EndsWithEND(s) == Len(s) > 0 /\ s[Len(s)].c = "END"

\* number of whitespace elements of s starting at position p
RECURSIVE WsRun(_, _)
WsRun(s, p) == IF p <= Len(s) /\ IsWs(s[p]) THEN 1 + WsRun(s, p + 1) ELSE 0

\* s.split("\n")
RECURSIVE SplitLines(_)
SplitLines(s) ==
  IF \E i \in 1..Len(s) : s[i].c = "nl"
  THEN LET i == CHOOSE k \in 1..Len(s) :
                  s[k].c = "nl" /\ \A j \in 1..(k - 1) : s[j].c # "nl"
       IN <<SubSeq(s, 1, i - 1)>> \o SplitLines(SubSeq(s, i + 1, Len(s)))
  ELSE <<s>>

\* parts.join(sep)
RECURSIVE JoinWith(_, _)
JoinWith(parts, sep) ==
  IF Len(parts) = 0 THEN <<>>
  ELSE IF Len(parts) = 1 THEN parts[1]
  ELSE parts[1] \o sep \o JoinWith(Tail(parts), sep)

\* number of occurrences of the sentinel in s
SentinelCount(s) == Cardinality({i \in 1..Len(s) : s[i].c = "END"})

(***************************************************************************)
(* Sentinel handling and the Joiner                                        *)
(***************************************************************************)
\* text.replace(/\s*---END---\s*$/g, "") when the last non-whitespace
\* element of s is at l: the match must reach the end of the string, so at
\* most the last sentinel (with the whitespace around it) is removed.
StripAt(s, l) ==
  IF l > 0 /\ s[l].c = "END" THEN TrimEnd(SubSeq(s, 1, l - 1)) ELSE s
StripEndMarker(s) == StripAt(s, LastNonWs(s))

\* mutant: the sentinel is appended twice, whatever the text ends with
EnsureMutAppendsTwice(t) ==
  IF t = <<>> THEN <<>> ELSE t \o <<NL, END, NL, END>>

\* mutant: the sentinel is appended to the empty text too
EnsureMutSynthesizes(t) ==
  IF EndsWithEND(t) THEN t ELSE t \o <<NL, END>>

\* ensureEndMarker after const t = (text ?? "").trim()
EnsureTrimmed(t) ==
  IF t = <<>> THEN <<>>
  ELSE IF EndsWithEND(t) THEN t
  ELSE t \o <<NL, END>>

ensureEndMarker(text) == EnsureTrimmed(Trim(text))

NonBlank(o) == Len(Trim(o)) > 0

safeJoin(outputs) ==
  ensureEndMarker(Trim(JoinWith(
    SelectSeq([i \in 1..Len(outputs) |-> TrimEnd(StripEndMarker(outputs[i]))],
              NonBlank),
    <<NL, NL>>)))

(***************************************************************************)
(* Quality Gate                                                            *)
(***************************************************************************)
MinBodyLen == 220
MinBullets == 6

\* body.match(/^\s*[-•]\s+/gm).  With the m flag ^ holds at the start of
\* the string and after a line terminator, and \s* runs over line
\* terminators too: a bullet at q matches when it is followed by whitespace
\* and some start of a line precedes it with whitespace only in between.
LineStartBefore(s, q) ==
  \E p \in 1..q : /\ p = 1 \/ s[p - 1].c \in {"nl", "cr"}
                  /\ \A r \in p..(q - 1) : IsWs(s[r])
ValidBullet(s, q) ==
  /\ s[q].c \in {"-", "dot"} /\ s[q].n = 1
  /\ WsRun(s, q + 1) >= 1
  /\ LineStartBefore(s, q)
\* index of the last non-whitespace element before q (0 when none)
PrevNonWs(s, q) ==
  IF \E j \in 1..(q - 1) : ~IsWs(s[j])
  THEN CHOOSE j \in 1..(q - 1) : ~IsWs(s[j]) /\ \A r \in (j + 1)..(q - 1) : IsWs(s[r])
  ELSE 0
\* A match consumes the whitespace that follows its bullet and the scan
\* resumes after it: a bullet that is not itself at the start of a line is
\* passed over when that whitespace, consumed by the match of the bullet
\* before it, reaches it.
RECURSIVE BulletCounted(_, _)
BulletCounted(s, q) ==
  /\ ValidBullet(s, q)
  /\ ~(/\ q > 1 /\ s[q - 1].c \notin {"nl", "cr"}
       /\ PrevNonWs(s, q) > 0
       /\ BulletCounted(s, PrevNonWs(s, q)))
\* the number of matches
BulletMatches(s) == Cardinality({ q \in 1..Len(s) : BulletCounted(s, q) })

HasPhrase(s, names) == \E i \in 1..Len(s) : s[i].c \in names

\* mutant: the Common pitfalls header is not asked for
AcceptsMutNoPitfalls(body) ==
  /\ HasPhrase(body, {"ASK", "ask"})
  /\ HasPhrase(body, {"MET"})
  /\ BulletMatches(body) >= MinBullets
  /\ StrLen(body) >= MinBodyLen

\* the verdict on const body = text.replace(/\s*---END---\s*$/g, "").trim()
AcceptsBody(body) ==
  /\ HasPhrase(body, {"ASK", "ask"})
  /\ HasPhrase(body, {"MET"})
  /\ HasPhrase(body, {"PIT"})
  /\ BulletMatches(body) >= MinBullets
  /\ StrLen(body) >= MinBodyLen

\* mutant: the sentinel is not removed before the body is measured
GateMutCountsSentinel(text) == ~AcceptsBody(Trim(text))

\* TRUE when the text is rejected
looksTooShortHomeworkExplain(text) == ~AcceptsBody(Trim(StripEndMarker(text)))

(***************************************************************************)
(* Marker regexes of the Chunker                                           *)
(***************************************************************************)
IsDigit(e) == e.c \in DigitChars /\ e.n = 1
IsLetter(e) == e.c \in LetterChars /\ e.n = 1

RECURSIVE DigitRun(_, _)
DigitRun(s, p) == IF p <= Len(s) /\ IsDigit(s[p]) THEN 1 + DigitRun(s, p + 1) ELSE 0

\* the numerals (iv|v?i{1,3}|ix|x) accepts
RomanSet ==
  { <<"i">>, <<"i", "i">>, <<"i", "i", "i">>, <<"i", "v">>, <<"v", "i">>,
    <<"v", "i", "i">>, <<"v", "i", "i", "i">>, <<"i", "x">>, <<"x">> }

NoMatch == [ok |-> FALSE, index |-> 0, end |-> 0, cap |-> <<>>]

\* where a regex of the shape (?:^|\n)\s*... can start at position p
StartsHere(s, p) == p = 1 \/ s[p].c = "nl"
\* the position after (?:^|\n)\s* for a match that starts at p
AfterLead(s, p) ==
  IF p = 1 /\ s[p].c # "nl" THEN p + WsRun(s, p) ELSE p + 1 + WsRun(s, p + 1)

\* the trailing \s+ from position after, of w elements
FinishW(s, p, capFrom, capTo, after, w) ==
  IF w >= 1
  THEN [ok |-> TRUE, index |-> p, end |-> after + w, cap |-> SubSeq(s, capFrom, capTo)]
  ELSE NoMatch
Finish(s, p, capFrom, capTo, after) ==
  FinishW(s, p, capFrom, capTo, after, WsRun(s, after))

\* (\d+)\. at q, the digits being d elements
TopMark(s, p, q, d) ==
  IF d >= 1 /\ q + d <= Len(s) /\ s[q + d].c = "." /\ s[q + d].n = 1
  THEN Finish(s, p, q, q + d - 1, q + d + 1)
  ELSE NoMatch

\* \(([a-z])\) at q
LetterMark(s, p, q) ==
  IF q + 2 <= Len(s) /\ s[q].c = "(" /\ IsLetter(s[q + 1]) /\ s[q + 2].c = ")"
  THEN Finish(s, p, q + 1, q + 1, q + 3)
  ELSE NoMatch

\* the lengths k for which s[q+1..q+k] is a numeral followed by ")"
RomanFits(s, q) ==
  { k \in 1..4 :
      /\ q + k + 1 <= Len(s)
      /\ \A j \in 1..k : IsLetter(s[q + j])
      /\ [j \in 1..k |-> LowerChar(s[q + j].c)] \in RomanSet
      /\ s[q + k + 1].c = ")" }
RomanMarkK(s, p, q, fits) ==
  IF fits # {}
  THEN Finish(s, p, q + 1, q + (CHOOSE k \in fits : TRUE),
              q + (CHOOSE k \in fits : TRUE) + 2)
  ELSE NoMatch
\* \((iv|v?i{1,3}|ix|x)\) at q
RomanMark(s, p, q) ==
  IF q <= Len(s) /\ s[q].c = "(" THEN RomanMarkK(s, p, q, RomanFits(s, q)) ELSE NoMatch

Mark(kind, s, p, q) ==
  CASE kind = "top" -> TopMark(s, p, q, DigitRun(s, q))
    [] kind = "letter" -> LetterMark(s, p, q)
    [] kind = "roman" -> RomanMark(s, p, q)

\* One attempt of a marker regex at position p of s.  All three have the
\* shape (?:^|\n)\s*MARK\s+ without the m flag: the match starts at the
\* beginning of the string or on a newline, which it consumes.
\*   "top":    /(?:^|\n)\s*(\d+)\.\s+/g
\*   "letter": /(?:^|\n)\s*\(([a-z])\)\s+/gi
\*   "roman":  /(?:^|\n)\s*\(((?:iv|v?i{1,3}|ix|x))\)\s+/gi
MatchAt(kind, s, p) ==
  IF StartsHere(s, p) THEN Mark(kind, s, p, AfterLead(s, p)) ELSE NoMatch

\* Array.from(s.matchAll(re)): successive non-overlapping matches
RECURSIVE MatchAll(_, _, _)
RECURSIVE MatchAllStep(_, _, _, _)
MatchAllStep(kind, s, p, m) ==
  IF m.ok THEN <<m>> \o MatchAll(kind, s, m.end) ELSE MatchAll(kind, s, p + 1)
MatchAll(kind, s, p) ==
  IF p > Len(s) THEN <<>> ELSE MatchAllStep(kind, s, p, MatchAt(kind, s, p))

\* re.test(s)
Test(kind, s) == Len(MatchAll(kind, s, 1)) > 0

\* mutant: the first slice starts at the beginning of the text
SegmentMutFromStart(s, ms, i) ==
  SubSeq(s, IF i = 1 THEN 1 ELSE ms[i].index,
         IF i + 1 <= Len(ms) THEN ms[i + 1].index - 1 ELSE Len(s))

\* s.slice(from the start of match i, to the start of match i+1 or the end)
Segment(s, ms, i) ==
  SubSeq(s, ms[i].index, IF i + 1 <= Len(ms) THEN ms[i + 1].index - 1 ELSE Len(s))

(***************************************************************************)
(* Chunker                                                                 *)
(***************************************************************************)
MaxChars == 2400
TopMinNonWs == 60
UnitMinNonWs == 120

\* the elements of s at the positions of keep, in order
RECURSIVE Pick(_, _, _)
Pick(s, keep, i) ==
  IF i > Len(s) THEN <<>>
  ELSE (IF i \in keep THEN <<s[i]>> ELSE <<>>) \o Pick(s, keep, i + 1)

NotCr(e) == e.c # "cr"
\* s.replace(/\r/g, "")
RemoveCr(s) == SelectSeq(s, NotCr)

\* s.replace(/[ \t]+\n/g, "\n"): blanks directly before a newline go
StripSpaceBeforeNl(s) ==
  Pick(s, { i \in 1..Len(s) :
              ~(/\ s[i].c = "sp"
                /\ \E j \in (i + 1)..Len(s) :
                     s[j].c = "nl" /\ \A k \in i..(j - 1) : s[k].c = "sp") }, 1)

\* s.replace(/\n{3,}/g, "\n\n"): a run of newlines keeps its first two
CollapseNl(s) ==
  Pick(s, { i \in 1..Len(s) :
              ~(i >= 3 /\ s[i].c = "nl" /\ s[i - 1].c = "nl" /\ s[i - 2].c = "nl") }, 1)

\* t.slice(0, k): the first k characters
RECURSIVE TakeChars(_, _)
TakeChars(s, k) ==
  IF Len(s) = 0 \/ k <= 0 THEN <<>>
  ELSE IF Width(s[1]) <= k THEN <<s[1]>> \o TakeChars(Tail(s), k - Width(s[1]))
  ELSE IF s[1].c \in Phrases THEN <<>>
  ELSE <<Run(s[1].c, k)>>

\* chunks.push(c) when c is not empty
PushIf(chunks, c) == IF Len(c) > 0 THEN Append(chunks, c) ELSE chunks

\* the for loop of chunkByChars over lines[i..], with its two locals
RECURSIVE ChunkLoop(_, _, _, _, _)
RECURSIVE ChunkStep(_, _, _, _, _, _)
\* mutant: the line that overflows the window is not carried over
ChunkStepMutDropsLine(lines, i, cur, chunks, maxChars, next) ==
  IF StrLen(next) > maxChars
  THEN ChunkLoop(lines, i + 1, <<>>, PushIf(chunks, Trim(cur)), maxChars)
  ELSE ChunkLoop(lines, i + 1, next, chunks, maxChars)

ChunkStep(lines, i, cur, chunks, maxChars, next) ==
  IF StrLen(next) > maxChars
  THEN ChunkLoop(lines, i + 1, lines[i], PushIf(chunks, Trim(cur)), maxChars)
  ELSE ChunkLoop(lines, i + 1, next, chunks, maxChars)
ChunkLoop(lines, i, cur, chunks, maxChars) ==
  IF i > Len(lines) THEN PushIf(chunks, Trim(cur))
  ELSE ChunkStep(lines, i, cur, chunks, maxChars,
                 IF Len(cur) > 0 THEN cur \o <<NL>> \o lines[i] ELSE lines[i])

\* return chunks.length ? chunks : [t.slice(0, maxChars)]
ChunksOr(chunks, t, maxChars) ==
  IF Len(chunks) > 0 THEN chunks ELSE <<TakeChars(t, maxChars)>>
\* chunkByChars after const t = text.replace(/\r/g, "").trim()
ChunkTrimmed(t, maxChars) ==
  IF Len(t) = 0 THEN <<>>
  ELSE ChunksOr(ChunkLoop(SplitLines(t), 1, <<>>, <<>>, maxChars), t, maxChars)

chunkByChars(text, maxChars) == ChunkTrimmed(Trim(RemoveCr(text)), maxChars)

RECURSIVE Flatten(_)
Flatten(seqs) == IF Len(seqs) = 0 THEN <<>> ELSE seqs[1] \o Flatten(Tail(seqs))

\* const cleaned = ... of splitIntoProblems
Normalize(text) == Trim(CollapseNl(StripSpaceBeforeNl(RemoveCr(text))))

LongEnoughTop(tc) == NonWsLen(tc.body) > TopMinNonWs
\* step 1: the top-level segments that are long enough
TopChunks(cleaned, topMatches) ==
  SelectSeq([i \in 1..Len(topMatches) |->
               [label |-> topMatches[i].cap,
                body |-> Trim(Segment(cleaned, topMatches, i))]],
            LongEnoughTop)

\* mutant: the label line is not put in front of the piece
LetterUnitMutNoLabel(label, letter, piece) == piece

\* `${label}(${letter})\n${piece}`
LetterUnit(label, letter, piece) ==
  label \o <<Ch("(")>> \o letter \o <<Ch(")"), NL>> \o piece
\* `${label}(${letter})(${roman})\n${romanPiece}`
RomanUnit(label, letter, roman, romanPiece) ==
  label \o <<Ch("(")>> \o letter \o <<Ch(")"), Ch("(")>> \o roman
        \o <<Ch(")"), NL>> \o romanPiece

RomanUnits(label, letter, piece, romanMatches) ==
  IF Len(romanMatches) = 0 THEN <<LetterUnit(label, letter, piece)>>
  ELSE [j \in 1..Len(romanMatches) |->
          RomanUnit(label, letter, ToLower(romanMatches[j].cap),
                    Trim(Segment(piece, romanMatches, j)))]

\* step 3: one lettered piece, split on roman sub-markers when it has any
UnitsOfPiece(label, letter, piece) ==
  IF ~Test("roman", piece) THEN <<LetterUnit(label, letter, piece)>>
  ELSE RomanUnits(label, letter, piece, MatchAll("roman", piece, 1))

LetterUnits(tc, partMatches) ==
  IF Len(partMatches) = 0 THEN <<tc.body>>
  ELSE Flatten([i \in 1..Len(partMatches) |->
                  UnitsOfPiece(tc.label, ToLower(partMatches[i].cap),
                               Trim(Segment(tc.body, partMatches, i)))])

\* step 2: one top-level segment, split on lettered sub-markers when it has any
UnitsOfTop(tc) ==
  IF ~Test("letter", tc.body) THEN <<tc.body>>
  ELSE LetterUnits(tc, MatchAll("letter", tc.body, 1))

Usable(c) == NonWsLen(c) > UnitMinNonWs
\* return finalChunks.map((c) => c.trim()).filter(...)
FilterJunk(finalChunks) ==
  SelectSeq([i \in 1..Len(finalChunks) |-> Trim(finalChunks[i])], Usable)

UnitsOfTops(topChunks) ==
  Flatten([i \in 1..Len(topChunks) |-> UnitsOfTop(topChunks[i])])

SplitMatched(cleaned, topMatches) ==
  IF Len(topMatches) = 0 THEN chunkByChars(cleaned, MaxChars)
  ELSE FilterJunk(UnitsOfTops(TopChunks(cleaned, topMatches)))

SplitCleaned(cleaned) ==
  IF Len(cleaned) = 0 THEN <<>>
  ELSE SplitMatched(cleaned, MatchAll("top", cleaned, 1))

splitIntoProblems(text) == SplitCleaned(Normalize(text))

(***************************************************************************)
(* Label detection and the fallback document                               *)
(***************************************************************************)
MaxFallbackBlocks == 10
MinFallbackLabels == 2
MaxBareLabelLen == 3

\* number of elements of (\([a-z]\))? at position q: 3 or 0
LetterGroup(s, q) ==
  IF q + 2 <= Len(s) /\ s[q].c = "(" /\ IsLetter(s[q + 1]) /\ s[q + 2].c = ")"
  THEN 3 ELSE 0

IsIvx(e) == LowerChar(e.c) \in {"i", "v", "x"} /\ e.n = 1
IvxFits(s, q) ==
  { k \in 1..(Len(s) - q) :
      /\ \A j \in 1..k : IsIvx(s[q + j])
      /\ q + k + 1 <= Len(s) /\ s[q + k + 1].c = ")" }
GroupLen(ks) == IF ks # {} THEN (CHOOSE k \in ks : TRUE) + 2 ELSE 0
\* number of elements of (\([ivx]+\))? at position q: k + 2 or 0
RomanGroup(s, q) ==
  IF q <= Len(s) /\ s[q].c = "(" THEN GroupLen(IvxFits(s, q)) ELSE 0

LabelMatch(s, p, from, to) ==
  [ok |-> TRUE, index |-> p, end |-> to + 1, cap |-> SubSeq(s, from, to)]

\* the optional groups m[2], m[3] from position a, m[2] being g2 elements
ProblemTail(s, p, q, a, g2) == LabelMatch(s, p, q, a + g2 + RomanGroup(s, a + g2) - 1)
\* the same after \s*, m[2] being required; digits is m[1]
SubTail(s, p, digits, a, g2) ==
  IF g2 = 0 THEN NoMatch
  ELSE [ok |-> TRUE, index |-> p, end |-> a + g2 + RomanGroup(s, a + g2),
        cap |-> digits \o SubSeq(s, a, a + g2 + RomanGroup(s, a + g2) - 1)]
\* ([.)]) at position a
BareTail(s, p, digits, a) ==
  IF a <= Len(s) /\ s[a].c \in {".", ")"} /\ s[a].n = 1
  THEN [ok |-> TRUE, index |-> p, end |-> a + 1, cap |-> digits]
  ELSE NoMatch

\* the rest of a label regex from its (\d+) at q, of d digits
LabelDigits(kind, s, p, q, d) ==
  IF d = 0 THEN NoMatch
  ELSE CASE kind = "problem" -> ProblemTail(s, p, q, q + d, LetterGroup(s, q + d))
         [] kind = "sub" ->
              SubTail(s, p, SubSeq(s, q, q + d - 1), q + d + WsRun(s, q + d),
                      LetterGroup(s, q + d + WsRun(s, q + d)))
         [] kind = "bare" ->
              BareTail(s, p, SubSeq(s, q, q + d - 1), q + d + WsRun(s, q + d))

LabelFrom(kind, s, p, q) == LabelDigits(kind, s, p, q, DigitRun(s, q))

\* after (?:^|\n)\s* ended at q0: the word Problem and \s* when kind asks for it
LabelLead(kind, s, p, q0) ==
  IF kind = "problem"
  THEN IF q0 <= Len(s) /\ s[q0].c = "Problem"
       THEN LabelFrom(kind, s, p, q0 + 1 + WsRun(s, q0 + 1))
       ELSE NoMatch
  ELSE LabelFrom(kind, s, p, q0)

\* One attempt of a label regex of detectProblemLabels at position p.
\*   "problem": /(?:^|\n)\s*Problem\s*(\d+)(\([a-z]\))?(\([ivx]+\))?/gi
\*   "sub":     /(?:^|\n)\s*(\d+)\s*(\([a-z]\))(\([ivx]+\))?/gi
\*   "bare":    /(?:^|\n)\s*(\d+)\s*([.)])/g
\* cap is the label: m[1] followed by m[2] and m[3] when they matched.
LabelMatchAt(kind, s, p) ==
  IF StartsHere(s, p) THEN LabelLead(kind, s, p, AfterLead(s, p)) ELSE NoMatch

\* the next position after p a match can start at: the next newline
NextStart(s, p) ==
  IF \E q \in (p + 1)..Len(s) : s[q].c = "nl"
  THEN CHOOSE q \in (p + 1)..Len(s) :
         s[q].c = "nl" /\ \A r \in (p + 1)..(q - 1) : s[r].c # "nl"
  ELSE Len(s) + 1

\* text.matchAll(re): successive matches, the search resuming at the end of
\* a match and, where none starts at p, at the next position one can start
RECURSIVE LabelMatchAll(_, _, _)
RECURSIVE LabelMatchStep(_, _, _, _)
LabelMatchStep(kind, s, p, m) ==
  IF m.ok THEN <<m>> \o LabelMatchAll(kind, s, m.end)
  ELSE LabelMatchAll(kind, s, NextStart(s, p))
LabelMatchAll(kind, s, p) ==
  IF p > Len(s) THEN <<>> ELSE LabelMatchStep(kind, s, p, LabelMatchAt(kind, s, p))

\* /\(\s*[a-z]\s*\)/i at position p, the letter being expected at a
SubpartAt(s, p, a) ==
  /\ a <= Len(s) /\ IsLetter(s[a])
  /\ a + 1 + WsRun(s, a + 1) <= Len(s)
  /\ s[a + 1 + WsRun(s, a + 1)].c = ")"
\* /\(\s*[a-z]\s*\)/i.test(text)
HasSubparts(s) ==
  \E p \in 1..Len(s) : s[p].c = "(" /\ SubpartAt(s, p, p + 1 + WsRun(s, p + 1))

DigitValue(c) == CASE c = "1" -> 1 [] c = "2" -> 2 [] c = "3" -> 3
\* parseInt(label, 10) of a label, which starts with its digits
RECURSIVE DigitsValue(_, _)
DigitsValue(s, k) ==
  IF k = 0 THEN 0 ELSE 10 * DigitsValue(s, k - 1) + DigitValue(s[k].c)
ParseInt(label) == DigitsValue(label, DigitRun(label, 1))

\* collation rank of the characters a label is made of
CharRank(c) ==
  CASE c = "(" -> 1 [] c = ")" -> 2 [] c = "1" -> 3 [] c = "2" -> 4 [] c = "3" -> 5
    [] c = "a" -> 6 [] c = "A" -> 7 [] c = "b" -> 8 [] c = "i" -> 9 [] c = "v" -> 10
    [] c = "w" -> 11 [] c = "x" -> 12

\* a.localeCompare(b) < 0
RECURSIVE LocaleLess(_, _)
LocaleLess(a, b) ==
  IF Len(b) = 0 THEN FALSE
  ELSE IF Len(a) = 0 THEN TRUE
  ELSE IF a[1].c = b[1].c THEN LocaleLess(Tail(a), Tail(b))
  ELSE CharRank(a[1].c) < CharRank(b[1].c)

\* the comparator of arr.sort in detectProblemLabels, on parseInt values
BeforeBy(a, b, an, bn) == IF an # bn THEN an < bn ELSE LocaleLess(a, b)
\* mutant: the labels are compared as strings only
LabelBeforeMutNoParse(a, b) == LocaleLess(a, b)

LabelBefore(a, b) == BeforeBy(a, b, ParseInt(a), ParseInt(b))

\* the elements of a finite set of labels, sorted by LabelBefore
RECURSIVE SortLabels(_)
RECURSIVE SortFrom(_, _)
SortFrom(set, least) == <<least>> \o SortLabels(set \ {least})
SortLabels(set) ==
  IF set = {} THEN <<>>
  ELSE SortFrom(set, CHOOSE a \in set : \A b \in set \ {a} : LabelBefore(a, b))

CapsOf(ms) == { ms[i].cap : i \in 1..Len(ms) }
\* found.add(label) for every match of the regex
Caps(kind, text) == CapsOf(LabelMatchAll(kind, text, 1))

BareLabels(text) ==
  IF HasSubparts(text)
  THEN { l \in Caps("bare", text) : StrLen(l) <= MaxBareLabelLen }
  ELSE {}

detectProblemLabels(text) ==
  SortLabels(Caps("problem", text) \cup Caps("sub", text) \cup BareLabels(text))

(***************************************************************************)
(* extractProblemLabel                                                     *)
(***************************************************************************)
NotWs(e) == ~IsWs(e)
\* m3[1] for a match whose (\d+) is the d digits at q and whose \s* ends
\* before a: the digits, and the groups (\([a-z]\))? and (\([ivx]+\))? that
\* follow, with .replace(/\s+/g, "")
TailCapture(s, q, a, g2) ==
  SelectSeq(SubSeq(s, q, a + g2 + RomanGroup(s, a + g2) - 1), NotWs)
DigitsCapture(s, q, d) ==
  TailCapture(s, q, q + d + WsRun(s, q + d), LetterGroup(s, q + d + WsRun(s, q + d)))
\* /(?:Problem\s*)?(\d+\s*(?:\([a-z]\))?(?:\([ivx]+\))?)/i tried at p: the
\* position of the first digit of the match, or 0
AnywhereAt(s, p) ==
  IF IsDigit(s[p]) THEN p
  ELSE IF s[p].c = "Problem" /\ p + 1 + WsRun(s, p + 1) <= Len(s)
          /\ IsDigit(s[p + 1 + WsRun(s, p + 1)])
       THEN p + 1 + WsRun(s, p + 1)
  ELSE 0
RECURSIVE AnywhereFrom(_, _)
RECURSIVE AnywhereStep(_, _, _)
AnywhereStep(s, p, q) ==
  IF q > 0 THEN DigitsCapture(s, q, DigitRun(s, q)) ELSE AnywhereFrom(s, p + 1)
\* problemText.match(...) from position p on; "Problem" when nothing matches
AnywhereFrom(s, p) ==
  IF p > Len(s) THEN <<Ch("Problem")>> ELSE AnywhereStep(s, p, AnywhereAt(s, p))

\* firstLine.match(/^(\d+\([a-z]\))/i), then firstLine.match(/^(\d+)\./),
\* then the match anywhere; d is the number of digits firstLine starts with
LabelOfFirstLine(problemText, firstLine, d) ==
  IF d > 0 /\ LetterGroup(firstLine, d + 1) > 0 THEN SubSeq(firstLine, 1, d + 3)
  ELSE IF d > 0 /\ d + 1 <= Len(firstLine) /\ firstLine[d + 1].c = "."
       THEN SubSeq(firstLine, 1, d)
  ELSE AnywhereFrom(problemText, 1)
LabelOfLine1(problemText, firstLine) ==
  LabelOfFirstLine(problemText, firstLine, DigitRun(firstLine, 1))
extractProblemLabel(problemText) ==
  LabelOfLine1(problemText, Trim(SplitLines(problemText)[1]))

\* the prose of the template, by its length: g is any character of it
Prose(k) == Run("g", k)
Bullet1(head) == <<Ch("-"), SP, Ch(head), Ch(":"), NL>>
Bullet2(k) == <<Run("sp", 2), Ch("-"), SP, Prose(k)>>

\* mutant: the block has no Common pitfalls section
FallbackBlockMutTwoSections(label) ==
  <<Ch("[")>> \o label \o <<Ch("]"), NL>>
    \o Bullet1("ASK") \o Bullet2(84) \o <<NL>> \o Bullet2(86) \o <<NL>>
    \o Bullet1("MET") \o Bullet2(63) \o <<NL>> \o Bullet2(100) \o <<NL>>
    \o Bullet2(100)

fallbackBlock(label) ==
  <<Ch("[")>> \o label \o <<Ch("]"), NL>>
    \o Bullet1("ASK") \o Bullet2(84) \o <<NL>> \o Bullet2(86) \o <<NL>>
    \o Bullet1("MET") \o Bullet2(63) \o <<NL>> \o Bullet2(100) \o <<NL>>
    \o Bullet2(100) \o <<NL>>
    \o Bullet1("PIT") \o Bullet2(53) \o <<NL>> \o Bullet2(72) \o <<NL>> \o Bullet2(57)

HomeworkLabels == << <<Ch("Homework"), Ch("1")>>, <<Ch("Homework"), Ch("2")>> >>

\* mutant: the sentinel is not appended
FallbackMutNoSentinel(useLabels) ==
  Trim(JoinWith([i \in 1..(IF Len(useLabels) < MaxFallbackBlocks
                           THEN Len(useLabels) ELSE MaxFallbackBlocks) |->
                   Trim(fallbackBlock(useLabels[i]))],
                <<NL, NL>>))

\* useLabels.slice(0, 10).map(...).join("\n\n").trim() + "\n---END---"
FallbackOf(useLabels) ==
  Trim(JoinWith([i \in 1..(IF Len(useLabels) < MaxFallbackBlocks
                           THEN Len(useLabels) ELSE MaxFallbackBlocks) |->
                   Trim(fallbackBlock(useLabels[i]))],
                <<NL, NL>>)) \o <<NL, END>>

\* mutant: the detected labels are used however few they are
FallbackMutNoDefault(labels) == FallbackOf(labels)

fallbackHomeworkExplainFromLabels(labels) ==
  FallbackOf(IF Len(labels) >= MinFallbackLabels THEN labels ELSE HomeworkLabels)

(***************************************************************************)
(* Inputs: study material, requests and backend results                    *)
(***************************************************************************)
\* the largest number of numbered segments of a generated document
MaxSegs == 2

Str(cs) == [i \in 1..Len(cs) |-> Ch(cs[i])]
W(k) == Run("w", k)
Doc(lines) == JoinWith(lines, <<NL>>)

DigitOf(k) == CASE k = 1 -> "1" [] k = 2 -> "2" [] k = 3 -> "3"
\* the line "k. " followed by n characters of text
TopLine(k, n) == <<Ch(DigitOf(k)), Ch("."), SP, W(n)>>
\* the line "(c) " followed by n characters of text
PartLine(c, n) == <<Ch("("), Ch(c), Ch(")"), SP, W(n)>>
\* the line "Problem k(c) " followed by n characters of text
ProblemLine(k, c, n) ==
  <<Ch("Problem"), SP, Ch(DigitOf(k)), Ch("("), Ch(c), Ch(")"), SP, W(n)>>

\* k numbered segments of 130 characters each
SegDoc(k) == Doc([i \in 1..k |-> TopLine(i, 130)])

MatEmpty == <<>>
MatShort == TopLine(1, 50)
MatPlain == <<W(130)>>
MatFiltered == Doc(<<TopLine(1, 65), TopLine(2, 65)>>)
MatLettered == Doc(<<TopLine(1, 20), PartLine("a", 130), PartLine("b", 130)>>)
MatProblems ==
  Doc(<<ProblemLine(1, "a", 130), ProblemLine(1, "b", 130), ProblemLine(2, "a", 10)>>)

Materials ==
  {MatEmpty, MatShort, MatPlain, MatFiltered, MatLettered, MatProblems}
    \cup { SegDoc(k) : k \in 1..MaxSegs }

\* a three-section answer with 9 bullets
GoodBody ==
  Bullet1("ASK") \o Bullet2(40) \o <<NL>> \o Bullet2(40) \o <<NL>>
    \o Bullet1("MET") \o Bullet2(40) \o <<NL>> \o Bullet2(40) \o <<NL>>
    \o Bullet1("PIT") \o Bullet2(40) \o <<NL>> \o Bullet2(40)
\* another one, with a lower-case first header, not terminated
AltBody ==
  Bullet1("ask") \o Bullet2(50) \o <<NL>> \o Bullet2(50) \o <<NL>>
    \o Bullet1("MET") \o Bullet2(50) \o <<NL>> \o Bullet2(50) \o <<NL>>
    \o Bullet1("PIT") \o Bullet2(50) \o <<NL>> \o Bullet2(50)
\* an answer without the Common pitfalls section
NoPitBody ==
  Bullet1("ASK") \o Bullet2(60) \o <<NL>> \o Bullet2(60) \o <<NL>> \o Bullet2(60)
    \o <<NL>> \o Bullet1("MET") \o Bullet2(60) \o <<NL>> \o Bullet2(60) \o <<NL>>
    \o Bullet2(60)

EmptyText == <<>>
GoodText == GoodBody \o <<NL, END>>
AltText == AltBody
NoPitText == NoPitBody \o <<NL, END>>
\* a complete answer with a sentinel after its first section
MidSentinelText ==
  Bullet1("ASK") \o Bullet2(40) \o <<NL>> \o Bullet2(40) \o <<NL, END, NL>>
    \o Bullet1("MET") \o Bullet2(40) \o <<NL>> \o Bullet2(40) \o <<NL>>
    \o Bullet1("PIT") \o Bullet2(40) \o <<NL>> \o Bullet2(40)
\* a complete answer that ends with the sentinel twice
DoubleEndText == GoodBody \o <<NL, END, NL, END>>

GenTexts ==
  {EmptyText, GoodText, AltText, NoPitText, MidSentinelText, DoubleEndText}

\* what one call of client.responses.create can do: return a response with
\* an output_text, return one without, or throw
GenResults ==
  { [kind |-> "text", text |-> t] : t \in GenTexts }
    \cup { [kind |-> "undefined", text |-> <<>>], [kind |-> "throw", text |-> <<>>] }

Tools == {"Homework Explain", "Study Guide", "Formula Sheet", "Exam Pack"}

NoPdf == [kind |-> "none", text |-> <<>>]
\* what extractPdfText can do for an uploaded file: return text or throw
PdfResults ==
  { [kind |-> "text", text |-> t] : t \in {<<>>, <<SP, NL>>, MatShort, MatPlain} }
    \cup { [kind |-> "throw", text |-> <<>>] }

Requests ==
  { [tool |-> t, notes |-> m, pdf |-> NoPdf, apiKey |-> TRUE] :
      t \in Tools, m \in Materials }
    \cup { [tool |-> "Homework Explain", notes |-> m, pdf |-> f, apiKey |-> TRUE] :
             m \in {MatEmpty, MatLettered}, f \in PdfResults }
    \cup { [tool |-> t, notes |-> MatPlain, pdf |-> NoPdf, apiKey |-> FALSE] :
             t \in Tools }

(***************************************************************************)
(* The POST handler                                                        *)
(***************************************************************************)
VARIABLES
  req,          \* the parsed request: tool, notes, pdf upload, OPENAI_API_KEY set
  pc,           \* the await the handler is suspended at, or "done"
  materialText, \* local of POST
  problems,     \* local of POST: the units
  idx,          \* position of the for loop in problems
  outputs,      \* local of POST: the accepted unit outputs
  out,          \* local of the loop body
  calls,        \* the generation calls issued so far, with what each returned
  response      \* the Response returned, if any

vars == <<req, pc, materialText, problems, idx, outputs, out, calls, response>>

userIsPro == FALSE
ProMaxProblems == 30
FreeMaxProblems == 6
maxProblems == IF userIsPro THEN ProMaxProblems ELSE FreeMaxProblems
MinMaterialNonWs == 120
LightGuardNonWs == 120

NoResponse == [kind |-> "none", status |-> 0, body |-> <<>>]
OutputResponse(text) == [kind |-> "output", status |-> 200, body |-> text]
ErrorResponse(code) == [kind |-> "error", status |-> code, body |-> <<>>]

Call(kind, unit) == [kind |-> kind, unit |-> unit, result |-> "pending"]
\* what the pending call returned
ResultClass(r) ==
  IF r.kind = "text" THEN (IF r.text = <<>> THEN "empty" ELSE "text") ELSE r.kind
Returned(r) ==
  [calls EXCEPT ![Len(calls)] = [@ EXCEPT !.result = ResultClass(r)]]

\* (resp as any).output_text ?? dflt
OutputText(r, dflt) == IF r.kind = "undefined" THEN dflt ELSE r.text

Init ==
  /\ req \in Requests
  /\ pc = "start"
  /\ materialText = <<>>
  /\ problems = <<>>
  /\ idx = 0
  /\ outputs = <<>>
  /\ out = <<>>
  /\ calls = <<>>
  /\ response = NoResponse

\* return Response.json(...)
Respond(r, log) ==
  /\ response' = r
  /\ pc' = "done"
  /\ calls' = log

\* mutant: problems is not cut to its first maxProblems units
DispatchableMutNoCap(ps, k) ==
  { i \in k..Len(ps) : ~(NonWsLen(ps[i]) < LightGuardNonWs) }

\* mutant: the light guard is missing
DispatchableMutNoLightGuard(ps, k) ==
  { i \in k..Len(ps) : i <= maxProblems }

\* the units the for loop visits from position k on: those of the first
\* maxProblems that pass the light guard
Dispatchable(ps, k) ==
  { i \in k..Len(ps) : i <= maxProblems /\ ~(NonWsLen(ps[i]) < LightGuardNonWs) }

\* mutant: salvage also when a single output was accepted
LoopToMutSalvageOnOne(ps, d, outs, log) ==
  /\ outputs' = outs
  /\ IF d # {}
     THEN /\ idx' = CHOOSE i \in d : \A j \in d : i <= j
          /\ pc' = "attempt1"
          /\ calls' = Append(log, Call("first", idx'))
          /\ UNCHANGED response
     ELSE /\ idx' = Len(ps) + 1
          /\ IF Len(outs) <= 1
             THEN /\ pc' = "salvage"
                  /\ calls' = Append(log, Call("salvage", 0))
                  /\ UNCHANGED response
             ELSE Respond(OutputResponse(safeJoin(outs)), log)

\* The for loop with the accepted outputs outs, up to its next await, and
\* what follows the loop when it is over; d is the units still to visit.
LoopTo(ps, d, outs, log) ==
  /\ outputs' = outs
  /\ IF d # {}
     THEN /\ idx' = CHOOSE i \in d : \A j \in d : i <= j
          /\ pc' = "attempt1"
          /\ calls' = Append(log, Call("first", idx'))
          /\ UNCHANGED response
     ELSE /\ idx' = Len(ps) + 1
          /\ IF Len(outs) = 0
             THEN /\ pc' = "salvage"
                  /\ calls' = Append(log, Call("salvage", 0))
                  /\ UNCHANGED response
             ELSE Respond(OutputResponse(safeJoin(outs)), log)

LoopFrom(ps, k, outs, log) == LoopTo(ps, Dispatchable(ps, k), outs, log)

\* mutant: the too-little-text guard is missing
ProceedMutNoShortGuard(mt) ==
  /\ materialText' = mt
  /\ IF Len(mt) = 0 THEN
       /\ Respond(ErrorResponse(400), calls)
       /\ UNCHANGED <<problems, idx, outputs>>
     ELSE IF req.tool = "Homework Explain" THEN
       /\ problems' = splitIntoProblems(mt)
       /\ LoopFrom(problems', 1, <<>>, calls)
     ELSE
       /\ pc' = "single"
       /\ calls' = Append(calls, Call("single", 0))
       /\ UNCHANGED <<problems, idx, outputs, response>>

\* POST from the material guards to the first generation call
Proceed(mt) ==
  /\ materialText' = mt
  /\ IF Len(mt) = 0 THEN
       /\ Respond(ErrorResponse(400), calls)
       /\ UNCHANGED <<problems, idx, outputs>>
     ELSE IF NonWsLen(mt) < MinMaterialNonWs THEN
       /\ Respond(ErrorResponse(400), calls)
       /\ UNCHANGED <<problems, idx, outputs>>
     ELSE IF req.tool = "Homework Explain" THEN
       /\ problems' = splitIntoProblems(mt)
       /\ LoopFrom(problems', 1, <<>>, calls)
     ELSE
       /\ pc' = "single"
       /\ calls' = Append(calls, Call("single", 0))
       /\ UNCHANGED <<problems, idx, outputs, response>>

\* mutant: getClient does not throw when the key is missing
BeginMutNoKeyCheck ==
  /\ pc = "start"
  /\ UNCHANGED <<req, out>>
  /\ IF req.tool = "Exam Pack" /\ ~userIsPro THEN
       /\ Respond(ErrorResponse(403), calls)
       /\ UNCHANGED <<materialText, problems, idx, outputs>>
     ELSE IF req.pdf.kind # "none" THEN
       /\ pc' = "extract"
       /\ materialText' = req.notes
       /\ UNCHANGED <<problems, idx, outputs, calls, response>>
     ELSE Proceed(req.notes)

\* POST up to its first await: the Pro gate, getClient, the notes
Begin ==
  /\ pc = "start"
  /\ UNCHANGED <<req, out>>
  /\ IF req.tool = "Exam Pack" /\ ~userIsPro THEN
       /\ Respond(ErrorResponse(403), calls)
       /\ UNCHANGED <<materialText, problems, idx, outputs>>
     ELSE IF ~req.apiKey THEN
       /\ Respond(ErrorResponse(500), calls)
       /\ UNCHANGED <<materialText, problems, idx, outputs>>
     ELSE IF req.pdf.kind # "none" THEN
       /\ pc' = "extract"
       /\ materialText' = req.notes
       /\ UNCHANGED <<problems, idx, outputs, calls, response>>
     ELSE Proceed(req.notes)

\* await extractPdfText(buffer) returns
ExtractReturns ==
  /\ pc = "extract"
  /\ req.pdf.kind = "text"
  /\ UNCHANGED <<req, out>>
  /\ Proceed(IF Len(Trim(req.pdf.text)) > 0 THEN Trim(req.pdf.text)
             ELSE materialText)

\* await extractPdfText(buffer) throws: the catch clause answers
ExtractThrows ==
  /\ pc = "extract"
  /\ req.pdf.kind = "throw"
  /\ Respond(ErrorResponse(500), calls)
  /\ UNCHANGED <<req, materialText, problems, idx, outputs, out>>

\* attempt 1 of the current unit returns
Attempt1Returns(r) ==
  /\ pc = "attempt1"
  /\ r.kind # "throw"
  /\ out' = ensureEndMarker(OutputText(r, <<>>))
  /\ UNCHANGED <<req, materialText, problems>>
  /\ IF looksTooShortHomeworkExplain(out')
     THEN /\ pc' = "retry"
          /\ calls' = Append(Returned(r), Call("retry", idx))
          /\ UNCHANGED <<idx, outputs, response>>
     ELSE LoopFrom(problems, idx + 1, Append(outputs, out'), Returned(r))

\* mutant: a rejected retry is retried again
RetryMutRetryAgain(r) ==
  /\ pc = "retry"
  /\ r.kind # "throw"
  /\ out' = ensureEndMarker(OutputText(r, out))
  /\ UNCHANGED <<req, materialText, problems>>
  /\ IF looksTooShortHomeworkExplain(out') /\ Len(calls) < 8
     THEN /\ pc' = "retry"
          /\ calls' = Append(Returned(r), Call("retry", idx))
          /\ UNCHANGED <<idx, outputs, response>>
     ELSE LoopFrom(problems, idx + 1,
                   IF ~looksTooShortHomeworkExplain(out') THEN Append(outputs, out')
                   ELSE outputs,
                   Returned(r))

\* mutant: the retry result is kept whatever the gate says
RetryMutKeepsRejected(r) ==
  /\ pc = "retry"
  /\ r.kind # "throw"
  /\ out' = ensureEndMarker(OutputText(r, out))
  /\ UNCHANGED <<req, materialText, problems>>
  /\ LoopFrom(problems, idx + 1, Append(outputs, out'), Returned(r))

\* the retry of the current unit returns
RetryReturns(r) ==
  /\ pc = "retry"
  /\ r.kind # "throw"
  /\ out' = ensureEndMarker(OutputText(r, out))
  /\ UNCHANGED <<req, materialText, problems>>
  /\ LoopFrom(problems, idx + 1,
              IF ~looksTooShortHomeworkExplain(out') THEN Append(outputs, out')
              ELSE outputs,
              Returned(r))

\* mutant: an empty salvage result is answered with an error
SalvageMutEmptyIsError(r) ==
  /\ pc = "salvage"
  /\ r.kind # "throw"
  /\ out' = ensureEndMarker(OutputText(r, <<>>))
  /\ UNCHANGED <<req, materialText, problems, idx, outputs>>
  /\ IF Len(out') > 0
     THEN Respond(OutputResponse(out'), Returned(r))
     ELSE Respond(ErrorResponse(500), Returned(r))

\* the salvage call returns
SalvageReturns(r) ==
  /\ pc = "salvage"
  /\ r.kind # "throw"
  /\ out' = ensureEndMarker(OutputText(r, <<>>))
  /\ UNCHANGED <<req, materialText, problems, idx, outputs>>
  /\ IF ~looksTooShortHomeworkExplain(out')
     THEN Respond(OutputResponse(out'), Returned(r))
     ELSE Respond(OutputResponse(fallbackHomeworkExplainFromLabels(
                                   detectProblemLabels(materialText))),
                  Returned(r))

\* the single call of the other tools returns
SinglePassReturns(r) ==
  /\ pc = "single"
  /\ r.kind # "throw"
  /\ out' = ensureEndMarker(OutputText(r, <<>>))
  /\ UNCHANGED <<req, materialText, problems, idx, outputs>>
  /\ IF Len(out') = 0
     THEN Respond(ErrorResponse(500), Returned(r))
     ELSE Respond(OutputResponse(out'), Returned(r))

\* a generation call throws: the catch clause of POST answers
GenerationThrows ==
  /\ pc \in {"attempt1", "retry", "salvage", "single"}
  /\ Respond(ErrorResponse(500), Returned([kind |-> "throw", text |-> <<>>]))
  /\ UNCHANGED <<req, materialText, problems, idx, outputs, out>>

Next ==
  \/ Begin
  \/ ExtractReturns
  \/ ExtractThrows
  \/ \E r \in GenResults : Attempt1Returns(r)
  \/ \E r \in GenResults : RetryReturns(r)
  \/ \E r \in GenResults : SalvageReturns(r)
  \/ \E r \in GenResults : SinglePassReturns(r)
  \/ GenerationThrows

Spec == Init /\ [][Next]_vars

\* the positions of the handler: before its first await, at one of its
\* awaits, after its return
Positions ==
  {"start", "extract", "attempt1", "retry", "salvage", "single", "done"}

\* the handler leaves the position it is at: a pending await is settled
Resumed ==
  /\ pc # "done"
  /\ pc' \in Positions
  /\ idx' \in 0..(maxProblems + 1)
  /\ <<pc', idx'>> # <<pc, idx>>

\* Every await of the handler is resumed: the backend and the PDF parser
\* return or throw.
SpecLive == Init /\ [][Next]_vars /\ WF_<<pc, idx>>(Resumed)

(***************************************************************************)
(* splitIntoProblems and chunkByChars applied to generated documents       *)
(***************************************************************************)
\* the largest number of lines of a generated structured document
MaxLines == 4
\* the largest number of lines of a generated document without markers
MaxPlainLines == 4

\* the line "(ii) " followed by n characters of text
RomanLine(n) == <<Ch("("), Ch("i"), Ch("i"), Ch(")"), SP, W(n)>>

StructLines ==
  { TopLine(1, 20), TopLine(1, 130), TopLine(2, 130),
    PartLine("a", 130), PartLine("b", 130), PartLine("b", 40), PartLine("i", 130),
    RomanLine(130), <<W(50)>> }

PlainLines ==
  { <<W(1000)>>, <<W(1500)>>, <<W(2500)>>, <<>>, <<SP, W(900), SP>> }

\* the sequences of 1..n elements of set
SeqsUpTo(set, n) == UNION { [1..k -> set] : k \in 1..n }

StructDocs == { Doc(ls) : ls \in SeqsUpTo(StructLines, MaxLines) }
PlainDocs == { Doc(ls) : ls \in SeqsUpTo(PlainLines, MaxPlainLines) }

NoRequest == [tool |-> "none", notes |-> <<>>, pdf |-> NoPdf, apiKey |-> TRUE]

InitSplit ==
  /\ materialText \in StructDocs \cup PlainDocs
  /\ pc = "split"
  /\ req = NoRequest
  /\ problems = <<>>
  /\ idx = 0
  /\ outputs = <<>>
  /\ out = <<>>
  /\ calls = <<>>
  /\ response = NoResponse

\* const problems = splitIntoProblems(materialText)
SplitApply ==
  /\ pc = "split"
  /\ problems' = splitIntoProblems(materialText)
  /\ pc' = "done"
  /\ UNCHANGED <<req, materialText, idx, outputs, out, calls, response>>

SpecSplit == InitSplit /\ [][SplitApply]_vars

(***************************************************************************)
(* Claims about the handler (specification Spec)                           *)
(***************************************************************************)
AllCallsEmpty == \A i \in 1..Len(calls) : calls[i].result = "empty"
UnitCalls(u, kind) ==
  { i \in 1..Len(calls) : calls[i].unit = u /\ calls[i].kind = kind }
CallsOfKind(kind) == { i \in 1..Len(calls) : calls[i].kind = kind }
\* the units a generation call was made for
DispatchedUnits ==
  { calls[i].unit : i \in CallsOfKind("first") \cup CallsOfKind("retry") }

\* C1: a Homework Explain request that got past the input guards and whose
\* generation calls all returned the empty string is answered with the
\* fallback document built from the labels detected in the material, as an
\* output and not as an error.
C1_AllEmptyGivesFallback ==
  (pc = "done" /\ req.tool = "Homework Explain" /\ Len(calls) > 0 /\ AllCallsEmpty)
    => /\ response.kind = "output"
       /\ response.body =
            fallbackHomeworkExplainFromLabels(detectProblemLabels(materialText))
       /\ Len(response.body) > 0

\* two units, each tried and retried, then salvage, all empty: fallback
C1_Witness ==
  /\ pc = "done" /\ req.tool = "Homework Explain"
  /\ Len(calls) = 5 /\ AllCallsEmpty
  /\ response.kind = "output"

\* C2 (as claimed): a generation call for a unit that throws is never
\* surfaced to the caller as an error response.
C2_FailedCallNeverSurfaced ==
  (\E i \in 1..Len(calls) :
      calls[i].kind \in {"first", "retry"} /\ calls[i].result = "throw")
    => response.kind # "error"

\* C3 (as claimed): every output returned is non-empty, ends with the
\* sentinel and contains the sentinel exactly once.
C3_OutputHasOneFinalSentinel ==
  response.kind = "output"
    => /\ Len(response.body) > 0
       /\ EndsWithEND(response.body)
       /\ SentinelCount(response.body) = 1

\* C8: every unit gets at most one first attempt and at most one retry, at
\* most one salvage call is made, at most maxProblems units are dispatched,
\* and a request that dispatched k units has made at most 2k+1 calls.
C8_BoundedCalls ==
  /\ \A u \in DispatchedUnits :
       /\ Cardinality(UnitCalls(u, "first")) = 1
       /\ Cardinality(UnitCalls(u, "retry")) <= 1
  /\ Cardinality(CallsOfKind("salvage")) <= 1
  /\ Cardinality(DispatchedUnits) <= maxProblems
  /\ Len(calls) <= 2 * Cardinality(DispatchedUnits) + 1

\* two units dispatched and the full 2k+1 = 5 calls made
C8_Witness ==
  /\ pc = "done" /\ Cardinality(DispatchedUnits) = 2 /\ Len(calls) = 5

\* C9: a request whose material is empty or has fewer non-whitespace
\* characters than the threshold is answered with the input error (400) and
\* no generation call is made for it.
C9_ShortMaterialNoCalls ==
  (/\ pc = "done" /\ req.apiKey /\ req.tool # "Exam Pack" /\ req.pdf.kind # "throw"
   /\ (Len(materialText) = 0 \/ NonWsLen(materialText) < MinMaterialNonWs))
    => /\ response.kind = "error" /\ response.status = 400
       /\ calls = <<>>

\* a Homework Explain request with 50 characters of notes was refused
C9_Witness ==
  /\ pc = "done" /\ req.tool = "Homework Explain" /\ req.notes = MatShort
  /\ req.pdf.kind = "none" /\ response.status = 400 /\ calls = <<>>

(***************************************************************************)
(* Claims about the Chunker (specification SpecSplit)                      *)
(***************************************************************************)
\* The structure of a generated document, read line by line: every marker
\* of a generated document is the first thing on its line.  L is the
\* sequence of lines, tops the set of the lines with a top-level marker.
IsTopLine(l) == Len(l) >= 3 /\ IsDigit(l[1]) /\ l[2].c = "." /\ IsWs(l[3])
IsLetterLine(l) ==
  Len(l) >= 4 /\ l[1].c = "(" /\ IsLetter(l[2]) /\ l[3].c = ")" /\ IsWs(l[4])
\* (i) and (ii) are the numerals of the generated documents
IsRomanLine(l) ==
  \/ Len(l) >= 4 /\ l[1].c = "(" /\ l[2].c = "i" /\ l[3].c = ")" /\ IsWs(l[4])
  \/ /\ Len(l) >= 5 /\ l[1].c = "(" /\ l[2].c = "i" /\ l[3].c = "i"
     /\ l[4].c = ")" /\ IsWs(l[5])
RomanOf(l) == IF l[3].c = "i" THEN <<Ch("i"), Ch("i")>> ELSE <<Ch("i")>>

TopLinesOf(L) == { i \in 1..Len(L) : IsTopLine(L[i]) }
HasTopMarker == TopLinesOf(SplitLines(materialText)) # {}
\* the last line of the stretch that starts at line i and ends before the
\* next line of marks, or at line last
StretchEnd(i, marks, last) ==
  IF \E j \in marks : j > i /\ j <= last
  THEN (CHOOSE j \in marks : j > i /\ j <= last
                             /\ \A k \in marks : (k > i /\ k <= last) => j <= k) - 1
  ELSE last
LetterLinesIn(L, t, e) == { j \in t..e : IsLetterLine(L[j]) }
RomanLinesIn(L, j, e) == { r \in j..e : IsRomanLine(L[r]) }

RECURSIVE LinesNonWs(_, _, _)
LinesNonWs(L, a, b) == IF a > b THEN 0 ELSE NonWsLen(L[a]) + LinesNonWs(L, a + 1, b)

ExpectedUnit(L, at, end, label, seg) ==
  [at |-> at, end |-> end, label |-> label, seg |-> seg,
   size |-> (IF Len(label) > 1 THEN StrLen(label) ELSE 0) + LinesNonWs(L, at, end)]

\* the units of the lettered part at lines j..e: one per roman sub-part
\* when roman is asked for and the part has roman markers, else the part
PartUnits(L, j, e, label, seg, romans) ==
  IF romans = {} THEN { ExpectedUnit(L, j, e, label, seg) }
  ELSE { ExpectedUnit(L, r, StretchEnd(r, romans, e),
                      label \o <<Ch("(")>> \o RomanOf(L[r]) \o <<Ch(")")>>, seg) :
           r \in romans }

\* the units of the segment at lines t..e: one per lettered part, or the
\* segment when it has none
SegUnits(L, t, e, letters, seg, roman) ==
  IF letters = {} THEN { ExpectedUnit(L, t, e, <<L[t][1]>>, seg) }
  ELSE UNION { PartUnits(L, j, StretchEnd(j, letters, e),
                         <<L[t][1], Ch("("), L[j][2], Ch(")")>>, seg,
                         IF roman
                         THEN RomanLinesIn(L, j, StretchEnd(j, letters, e))
                         ELSE {}) :
                 j \in letters }

SegUnitsAt(L, t, e, roman) ==
  SegUnits(L, t, e, LetterLinesIn(L, t, e), LinesNonWs(L, t, e), roman)

\* The units the document is expected to give, as records: the line a unit
\* starts at, its label path, its number of non-whitespace characters (label
\* line included) and that of its top-level segment.
UnitsOfLines(L, tops, roman) ==
  UNION { SegUnitsAt(L, t, StretchEnd(t, tops, Len(L)), roman) : t \in tops }
ExpectedUnits(L, roman) == UnitsOfLines(L, TopLinesOf(L), roman)

\* one unit per lettered part, one per segment without parts
UnitsByLetters == ExpectedUnits(SplitLines(materialText), FALSE)
\* the same, a lettered part that holds roman markers giving one unit per
\* roman sub-part instead
UnitsByRomans == ExpectedUnits(SplitLines(materialText), TRUE)

\* the labels of a set of expected units, in document order
RECURSIVE LabelsInOrder(_)
RECURSIVE LabelsFrom(_, _)
LabelsFrom(us, first) == <<first.label>> \o LabelsInOrder(us \ {first})
LabelsInOrder(us) ==
  IF us = {} THEN <<>>
  ELSE LabelsFrom(us, CHOOSE u \in us : \A v \in us : u.at <= v.at)

\* the label path a unit carries: its injected first line, or the number of
\* its own "N." marker
UnitLabelOf(firstLine) ==
  IF Len(firstLine) >= 2 /\ firstLine[2].c = "." THEN <<firstLine[1]>> ELSE firstLine
UnitLabel(unit) == UnitLabelOf(SplitLines(unit)[1])
UnitLabels(units) == [i \in 1..Len(units) |-> UnitLabel(units[i])]

\* C4 (as claimed): for non-empty text splitIntoProblems returns at least
\* one unit and no empty unit.
C4_SplitNeverEmpty ==
  (pc = "done" /\ Len(Trim(materialText)) > 0)
    => /\ Len(problems) > 0
       /\ \A i \in 1..Len(problems) : Len(problems[i]) > 0

WindowLines(units) == Flatten([i \in 1..Len(units) |-> SplitLines(units[i])])
\* the lines that are not blank, without their leading and trailing blanks
TrimmedNonBlank(ls) ==
  LET kept == SelectSeq(ls, NonBlank) IN [i \in 1..Len(kept) |-> Trim(kept[i])]
WindowsBounded(units) ==
  \A i \in 1..Len(units) :
    StrLen(units[i]) <= MaxChars \/ Len(SplitLines(units[i])) = 1

\* C6 (as claimed): without a top-level marker every window is at most
\* MaxChars long or is a single line, and the windows hold the lines of the
\* normalized text in order, none lost, none duplicated.
C6_WindowsKeepEveryLine ==
  (pc = "done" /\ ~HasTopMarker /\ Len(Trim(materialText)) > 0)
    => /\ WindowsBounded(problems)
       /\ WindowLines(problems) = SplitLines(Normalize(materialText))

\* C6 (amended): without a top-level marker every window is at most MaxChars
\* long or is a single line, and the windows hold the lines that are not
\* blank in order, none lost, none duplicated, up to the blanks trimmed at
\* the borders of a window; blank lines at a border are dropped.
C6_WindowsKeepNonBlankLines ==
  (pc = "done" /\ ~HasTopMarker /\ Len(Trim(materialText)) > 0)
    => /\ Len(problems) > 0
       /\ WindowsBounded(problems)
       /\ TrimmedNonBlank(WindowLines(problems))
            = TrimmedNonBlank(SplitLines(Normalize(materialText)))

\* two windows or more, one of several lines, one longer than MaxChars, and a
\* blank line of the text in none of them
C6_Witness ==
  /\ pc = "done" /\ ~HasTopMarker
  /\ Len(problems) >= 2
  /\ \E i \in 1..Len(problems) : Len(SplitLines(problems[i])) >= 2
  /\ \E i \in 1..Len(problems) : StrLen(problems[i]) > MaxChars
  /\ Len(WindowLines(problems)) < Len(SplitLines(Normalize(materialText)))

(***************************************************************************)
(* The Quality Gate applied to generated answers (specification SpecGate)  *)
(***************************************************************************)
\* the largest number of bullets of a generated answer
MaxGateBullets == 7

\* An answer is generated from a description: which headers it has, how
\* many bullet lines, which bullet character, the length its body is padded
\* to, and what follows the body.
GateInputs ==
  [ask : {"ASK", "ask", "none"}, met : BOOLEAN, pit : BOOLEAN,
   bullets : 0..MaxGateBullets, mark : {"-", "dot"},
   len : {150, 219, 220, 400}, tail : {"none", "end", "endnl"}]

HeaderLines(d) ==
  (IF d.ask # "none" THEN << <<Ch(d.ask), Ch(":")>> >> ELSE <<>>)
    \o (IF d.met THEN << <<Ch("MET"), Ch(":")>> >> ELSE <<>>)
    \o (IF d.pit THEN << <<Ch("PIT"), Ch(":")>> >> ELSE <<>>)
BulletLines(d) == [i \in 1..d.bullets |-> <<SP, Ch(d.mark), SP, Prose(10)>>]
\* a first line of text, so that the body never starts with a blank
BaseBody(d) == Doc(<< <<Prose(5)>> >> \o HeaderLines(d) \o BulletLines(d))
\* the length of BaseBody(d), counted from the description
BaseLen(d) ==
  5 + (IF d.ask # "none" THEN 28 ELSE 0) + (IF d.met THEN 25 ELSE 0)
    + (IF d.pit THEN 17 ELSE 0) + 14 * d.bullets
BodyLen(d) == IF BaseLen(d) < d.len THEN d.len ELSE BaseLen(d)
Padding(d) == IF BaseLen(d) < d.len THEN <<Prose(d.len - BaseLen(d))>> ELSE <<>>
GateText(d) ==
  BaseBody(d) \o Padding(d)
    \o (CASE d.tail = "none" -> <<>>
          [] d.tail = "end" -> <<NL, END>>
          [] d.tail = "endnl" -> <<SP, END, NL, SP>>)

InitGate ==
  /\ req \in GateInputs
  /\ pc = "gate"
  /\ out = GateText(req)
  /\ materialText = <<>>
  /\ problems = <<>>
  /\ idx = 0
  /\ outputs = <<>>
  /\ calls = <<>>
  /\ response = NoResponse

\* looksTooShortHomeworkExplain(out)
GateApply ==
  /\ pc = "gate"
  /\ response' = [kind |-> "verdict",
                  status |-> IF looksTooShortHomeworkExplain(out) THEN 0 ELSE 1,
                  body |-> <<>>]
  /\ pc' = "done"
  /\ UNCHANGED <<req, materialText, problems, idx, outputs, out, calls>>

SpecGate == InitGate /\ [][GateApply]_vars

\* C7: the gate accepts an answer exactly when it has the three headers (the
\* first in either case), at least MinBullets bullets and a body, the
\* trailing sentinel left out, of at least MinBodyLen characters.
C7_GateAcceptsIff ==
  pc = "done"
    => ((response.status = 1)
          <=> (/\ req.ask # "none" /\ req.met /\ req.pit
               /\ req.bullets >= MinBullets
               /\ BodyLen(req) >= MinBodyLen))

\* an answer of 400 characters and 7 bullets without Common pitfalls is
\* rejected
C7_Witness ==
  /\ pc = "done" /\ response.status = 0
  /\ req.ask # "none" /\ req.met /\ ~req.pit
  /\ req.bullets = 7 /\ req.len = 400

(***************************************************************************)
(* safeJoin applied to generated lists (specification SpecJoin)            *)
(***************************************************************************)
\* the largest number of elements of a generated list of outputs
MaxOutputs == 3

JoinTexts ==
  { <<>>, <<END>>, <<W(3)>>, <<W(4), NL, END>>, <<W(5), END, W(2)>>,
    <<W(6), NL, END, NL, END>>, <<W(7), NL, END, NL, END, NL, END, SP>>,
    <<W(2), END, END>> }

InitJoin ==
  /\ outputs \in SeqsUpTo(JoinTexts, MaxOutputs)
  /\ pc = "join"
  /\ req = NoRequest
  /\ materialText = <<>>
  /\ problems = <<>>
  /\ idx = 0
  /\ out = <<>>
  /\ calls = <<>>
  /\ response = NoResponse

\* Response.json({ output: safeJoin(outputs) })
JoinApply ==
  /\ pc = "join"
  /\ response' = OutputResponse(safeJoin(outputs))
  /\ pc' = "done"
  /\ UNCHANGED <<req, materialText, problems, idx, outputs, out, calls>>

SpecJoin == InitJoin /\ [][JoinApply]_vars

\* C10 (as claimed): the join of a non-empty list holds the sentinel exactly
\* once, as its last element.
C10_JoinHasOneFinalSentinel ==
  (pc = "done" /\ Len(outputs) > 0)
    => /\ SentinelCount(response.body) = 1
       /\ EndsWithEND(response.body)

\* the text without the sentinels at its end, t being s with one removed
RECURSIVE StripAllFrom(_, _)
StripAllFrom(s, t) == IF t = s THEN s ELSE StripAllFrom(t, StripEndMarker(t))
StripAllEndMarkers(s) == StripAllFrom(s, StripEndMarker(s))
\* an element that holds no sentinel but at most one at its end
CleanElement(o) == SentinelCount(StripEndMarker(o)) = 0
AllClean(os) == \A i \in 1..Len(os) : CleanElement(os[i])

CallsInChunkOrder ==
  \A i, j \in CallsOfKind("first") : i < j => calls[i].unit < calls[j].unit
\* the accepted outputs without their trailing sentinel, a blank line
\* between them, and one sentinel after them
JoinedAsClaimed(outs) ==
  JoinWith([i \in 1..Len(outs) |-> StripEndMarker(outs[i])], <<NL, NL>>)
    \o <<NL, END>>

\* C12 (as claimed): the document of the join path is the accepted outputs
\* in chunk order, each without its trailing sentinel, separated by one
\* blank line and followed by a single sentinel.
C12_JoinedDocumentAsClaimed ==
  (pc = "done" /\ response.kind = "output" /\ Len(outputs) > 0)
    => /\ CallsInChunkOrder
       /\ response.body = JoinedAsClaimed(outputs)

(***************************************************************************)
(* The Homework Explain flow on long documents (specification SpecFanout)  *)
(***************************************************************************)
\* the largest number of numbered segments of a long document
MaxFanSegs == 7

\* the line "n. " followed by 130 characters of text, n the i-th of the
\* numbers 11, 12, 13, 21, ...
FanLine(i) ==
  <<Ch(DigitOf(((i - 1) \div 3) + 1)), Ch(DigitOf(((i - 1) % 3) + 1)),
    Ch("."), SP, W(130)>>
FanSegDoc(k) == Doc([i \in 1..k |-> FanLine(i)])

\* documents without markers whose windows are partly short
FanPlainDocs ==
  { Doc(<< <<W(2390)>>, <<W(50)>> >>),
    Doc(<< <<W(50)>>, <<W(2390)>>, <<W(130)>> >>),
    Doc(<< <<W(2300)>>, <<W(120)>>, <<W(2300)>>, <<W(119)>> >>) }
\* a numbered document with a short part
FanShortPart == Doc(<<TopLine(1, 20), PartLine("a", 130), PartLine("b", 40)>>)

FanMaterials ==
  { FanSegDoc(k) : k \in 5..MaxFanSegs } \cup FanPlainDocs \cup {FanShortPart}

FanRequests ==
  { [tool |-> "Homework Explain", notes |-> m, pdf |-> NoPdf, apiKey |-> TRUE] :
      m \in FanMaterials }

\* the backend returns nothing or a complete answer
FanResults ==
  { [kind |-> "text", text |-> t] : t \in {EmptyText, GoodText} }

InitFanout ==
  /\ req \in FanRequests
  /\ pc = "start"
  /\ materialText = <<>>
  /\ problems = <<>>
  /\ idx = 0
  /\ outputs = <<>>
  /\ out = <<>>
  /\ calls = <<>>
  /\ response = NoResponse

NextFanout ==
  \/ Begin
  \/ \E r \in FanResults : Attempt1Returns(r)
  \/ \E r \in FanResults : RetryReturns(r)
  \/ \E r \in FanResults : SalvageReturns(r)
  \/ GenerationThrows

SpecFanout == InitFanout /\ [][NextFanout]_vars

\* C13: a generation call for a unit is only made for one of the first
\* maxProblems units of problems.
C13_OnlyFirstUnitsDispatched ==
  \A i \in 1..Len(calls) :
    calls[i].kind \in {"first", "retry"}
      => calls[i].unit >= 1 /\ calls[i].unit <= maxProblems

\* a document of more units than maxProblems, the first maxProblems of them
\* dispatched, answered with their join
C13_Witness ==
  /\ pc = "done" /\ Len(problems) > maxProblems
  /\ DispatchedUnits = 1..maxProblems
  /\ response.kind = "output" /\ Len(outputs) = maxProblems

\* C20: a generation call for a unit is only made when the unit has at
\* least LightGuardNonWs characters that are not whitespace, whether the
\* units come from the markers or from chunkByChars.
C20_NoCallForShortUnit ==
  \A i \in 1..Len(calls) :
    calls[i].kind \in {"first", "retry"}
      => /\ calls[i].unit \in 1..Len(problems)
         /\ NonWsLen(problems[calls[i].unit]) >= LightGuardNonWs

\* a window of chunkByChars below the threshold was skipped and a later
\* one dispatched
C20_Witness ==
  /\ pc = "done" /\ ~Test("top", materialText)
  /\ \E i, j \in 1..Len(problems) :
       /\ i < j /\ j <= maxProblems
       /\ NonWsLen(problems[i]) < LightGuardNonWs
       /\ i \notin DispatchedUnits /\ j \in DispatchedUnits

\* the for loop over the units is over
LoopOver == idx = Len(problems) + 1

\* C14: the salvage call is made exactly when the loop over the units ends
\* with no accepted output; when it ends with one or more, no salvage call
\* is made and the response is the join of the accepted outputs.
C14_SalvageIffNoOutput ==
  /\ CallsOfKind("salvage") # {} => (LoopOver /\ outputs = <<>>)
  /\ (LoopOver /\ outputs = <<>>) => Cardinality(CallsOfKind("salvage")) = 1
  /\ (LoopOver /\ outputs # <<>>)
       => /\ CallsOfKind("salvage") = {}
          /\ pc = "done"
          /\ response = OutputResponse(safeJoin(outputs))

\* two units dispatched, one of them dropped after its retry, the other
\* accepted: the answer is the join and no salvage call was made
C14_Witness ==
  /\ pc = "done" /\ LoopOver /\ Len(outputs) = 1
  /\ Cardinality(DispatchedUnits) = 2 /\ Len(calls) = 3
  /\ CallsOfKind("salvage") = {}
  /\ response.kind = "output"

\* every call returned a text that is not empty, no unit was accepted and
\* the salvage result, kept in out, was rejected too
AllResultsRejected ==
  /\ pc = "done" /\ req.tool = "Homework Explain"
  /\ \A i \in 1..Len(calls) : calls[i].result = "text"
  /\ outputs = <<>>
  /\ CallsOfKind("salvage") # {}
  /\ looksTooShortHomeworkExplain(out)

\* the call log is first, retry for each of k units in chunk order, then
\* the salvage call
FirstRetryThenSalvage(k) ==
  /\ Len(calls) = 2 * k + 1
  /\ calls[2 * k + 1].kind = "salvage"
  /\ \A j \in 1..k :
       /\ calls[2 * j - 1].kind = "first" /\ calls[2 * j].kind = "retry"
       /\ calls[2 * j - 1].unit = calls[2 * j].unit
       /\ j > 1 => calls[2 * j - 2].unit < calls[2 * j].unit

\* the labels of the blocks of a document: what stands between [ and ] on
\* the lines that start with [
IsLabelLine(l) == Len(l) >= 2 /\ l[1].c = "[" /\ l[Len(l)].c = "]"
LabelOfLine(l) == SubSeq(l, 2, Len(l) - 1)
LabelsOfLines(ls) == [i \in 1..Len(ls) |-> LabelOfLine(ls[i])]
BlockLabels(doc) == LabelsOfLines(SelectSeq(SplitLines(doc), IsLabelLine))

FirstLabels(labels) ==
  SubSeq(labels, 1,
         IF Len(labels) < MaxFallbackBlocks THEN Len(labels) ELSE MaxFallbackBlocks)
LabelsOrDefault(labels) ==
  IF Len(labels) >= MinFallbackLabels THEN FirstLabels(labels) ELSE HomeworkLabels

\* C15 (as claimed): when every result is a non-empty text that fails the
\* gate, each dispatched unit got one first call and one retry, in order,
\* then one salvage call was made, and the answer is the fallback document
\* whose blocks carry the labels detected in the material.
C15_RejectedRunAsClaimed ==
  AllResultsRejected
    => /\ FirstRetryThenSalvage(Cardinality(DispatchedUnits))
       /\ response.kind = "output"
       /\ BlockLabels(response.body) = detectProblemLabels(materialText)

\* C15 (amended): as above, the blocks carrying the first MaxFallbackBlocks
\* detected labels when MinFallbackLabels or more were detected, and the
\* labels Homework-1 and Homework-2 otherwise.
C15_RejectedRunGivesFallback ==
  AllResultsRejected
    => /\ FirstRetryThenSalvage(Cardinality(DispatchedUnits))
       /\ response.kind = "output"
       /\ EndsWithEND(response.body)
       /\ BlockLabels(response.body)
            = LabelsOrDefault(detectProblemLabels(materialText))

\* a run of rejected results over two units, answered with the two default
\* blocks
C15_Witness ==
  /\ AllResultsRejected
  /\ Cardinality(DispatchedUnits) = 2 /\ Len(calls) = 5
  /\ BlockLabels(response.body) = HomeworkLabels

(***************************************************************************)
(* fallbackHomeworkExplainFromLabels applied to generated lists of labels  *)
(* (specification SpecFallback)                                            *)
(***************************************************************************)
\* the number of labels to draw the lists from
MaxLabels == 11

LabelSuffix(k) ==
  CASE k = 0 -> <<>>
    [] k = 1 -> <<Ch("("), Ch("a"), Ch(")")>>
    [] k = 2 -> <<Ch("("), Ch("b"), Ch(")")>>
    [] k = 3 -> <<Ch("("), Ch("a"), Ch(")"), Ch("("), Ch("i"), Ch("i"), Ch(")")>>
\* the labels 1, 1(a), 1(b), 1(a)(ii), 2, 2(a), ...
LabelPool ==
  [i \in 1..MaxLabels |->
     <<Ch(DigitOf(((i - 1) \div 4) + 1))>> \o LabelSuffix((i - 1) % 4)]
\* the empty list and every run of consecutive labels
LabelLists ==
  {<<>>} \cup { SubSeq(LabelPool, a, b) : a \in 1..MaxLabels, b \in 1..MaxLabels }

\* the list of labels is kept in problems
InitFallback ==
  /\ problems \in LabelLists
  /\ pc = "fallback"
  /\ req = NoRequest
  /\ materialText = <<>>
  /\ idx = 0
  /\ outputs = <<>>
  /\ out = <<>>
  /\ calls = <<>>
  /\ response = NoResponse

\* Response.json({ output: fallbackHomeworkExplainFromLabels(labels) })
FallbackApply ==
  /\ pc = "fallback"
  /\ response' = OutputResponse(fallbackHomeworkExplainFromLabels(problems))
  /\ pc' = "done"
  /\ UNCHANGED <<req, materialText, problems, idx, outputs, out, calls>>

SpecFallback == InitFallback /\ [][FallbackApply]_vars

\* the number of lines [label] of a document made of blocks
BlockCount(doc) == Cardinality({ i \in 1..Len(doc) : doc[i].c = "[" })
\* the number of blocks for n labels
BlocksFor(n) ==
  IF n < MinFallbackLabels THEN 2
  ELSE IF n < MaxFallbackBlocks THEN n ELSE MaxFallbackBlocks

\* C16: for every list of labels the fallback is a document that is not
\* empty, ends with the sentinel, holds it once, has one block per label
\* used, and is made without a generation call.
C16_FallbackNeverFails ==
  pc = "done"
    => /\ response.kind = "output"
       /\ Len(response.body) > 0
       /\ EndsWithEND(response.body)
       /\ SentinelCount(response.body) = 1
       /\ BlockCount(response.body) = BlocksFor(Len(problems))
       /\ calls = <<>>

\* the fallback for a single label: the two default blocks
C16_Witness ==
  /\ pc = "done" /\ Len(problems) = 1
  /\ BlockLabels(response.body) = HomeworkLabels
  /\ EndsWithEND(response.body)

(***************************************************************************)
(* extractProblemLabel applied to units (specification SpecLabel)          *)
(***************************************************************************)
\* units written by hand, for the cases no generated document gives
HandUnits ==
  { <<>>,
    <<W(9)>>,
    <<Ch("Problem"), SP, W(9)>>,
    <<Ch("Problem"), SP, Ch("2"), Ch("("), Ch("a"), Ch(")"), SP, W(9)>>,
    <<W(5), SP, Ch("3"), SP, Ch("("), Ch("b"), Ch(")"), Ch("("), Ch("i"),
      Ch("i"), Ch(")"), SP, W(3)>>,
    <<SP, Ch("1"), Ch("("), Ch("A"), Ch(")"), SP, W(9), NL, Ch("2")>>,
    <<Ch("1"), Ch("2"), Ch("."), W(9)>>,
    <<Ch("1"), Ch(")"), SP, W(9)>>,
    <<Ch("2"), Ch("("), Ch("i"), Ch("i"), Ch(")"), SP, W(9)>>,
    <<Ch("("), Ch("a"), Ch(")"), SP, W(9), NL, W(4), Ch("3"), Ch("1"), SP, SP,
      Ch("("), Ch("x"), Ch(")")>> }

\* the largest number of lines of a document whose units are labelled
MaxLabelLines == 3

\* the units of the documents of at most n lines, and the units written by
\* hand, each alone
LabelInputs(n) ==
  { splitIntoProblems(Doc(ls)) : ls \in SeqsUpTo(StructLines, n) }
    \cup { <<u>> : u \in HandUnits }

InitLabel ==
  /\ problems \in LabelInputs(MaxLabelLines)
  /\ pc = "label"
  /\ req = NoRequest
  /\ materialText = <<>>
  /\ idx = 0
  /\ outputs = <<>>
  /\ out = <<>>
  /\ calls = <<>>
  /\ response = NoResponse

\* const label = extractProblemLabel(problemText), for every unit; the
\* labels are kept in outputs
LabelApply ==
  /\ pc = "label"
  /\ outputs' = [i \in 1..Len(problems) |-> extractProblemLabel(problems[i])]
  /\ pc' = "done"
  /\ UNCHANGED <<req, materialText, problems, idx, out, calls, response>>

SpecLabel == InitLabel /\ [][LabelApply]_vars

\* a line that is a label path: digits, a letter in parentheses and
\* possibly a numeral in parentheses; d is the number of digits
IsPathOf(l, d) ==
  /\ d > 0 /\ LetterGroup(l, d + 1) > 0
  /\ Len(l) = d + 3 + RomanGroup(l, d + 4)
IsPath(l) == IsPathOf(l, DigitRun(l, 1))
FirstLineOf(unit) == SplitLines(unit)[1]

\* C17 (as claimed): for a unit whose first line is a label path the label
\* is that path, whole.
C17_LabelIsFullPath ==
  pc = "done"
    => \A i \in 1..Len(problems) :
         IsPath(FirstLineOf(problems[i])) => outputs[i] = FirstLineOf(problems[i])

(***************************************************************************)
(* Claims about the input guards (specification Spec)                      *)
(***************************************************************************)
\* C18 (as claimed): when the text extracted from the PDF is empty or has
\* fewer non-whitespace characters than the threshold and notes were
\* pasted, the material is the notes, as for a request without a PDF.
C18_ShortExtractionUsesNotes ==
  (/\ pc \notin {"start", "extract"}
   /\ Len(req.notes) > 0
   /\ req.pdf.kind = "text"
   /\ NonWsLen(req.pdf.text) < MinMaterialNonWs)
    => materialText = req.notes

\* C19: a request for Exam Pack, and a request made while the API key is
\* missing, is answered with an error as soon as the handler runs, 403 for
\* Exam Pack and 500 for the key, and no generation call is made for it.
C19_RefusedBeforeAnyCall ==
  ((req.tool = "Exam Pack" \/ ~req.apiKey) /\ pc # "start")
    => /\ pc = "done"
       /\ response.kind = "error"
       /\ response.status = (IF req.tool = "Exam Pack" THEN 403 ELSE 500)
       /\ calls = <<>>

\* a Homework Explain request with good notes and no API key, answered 500
C19_Witness ==
  /\ pc = "done" /\ ~req.apiKey /\ req.tool = "Homework Explain"
  /\ NonWsLen(req.notes) >= MinMaterialNonWs
  /\ response.status = 500 /\ calls = <<>>

(***************************************************************************)
(* Claims about the order of the states (specification SpecLive)           *)
(***************************************************************************)
\* the states of the flow by the position of the handler: 0 before the
\* units are made, 1 FANOUT, 2 SALVAGE, 3 answered (JOIN, FALLBACK or error)
RankOf(p) ==
  CASE p \in {"start", "extract"} -> 0
    [] p \in {"attempt1", "retry", "single"} -> 1
    [] p = "salvage" -> 2
    [] p = "done" -> 3
\* the handler never goes back: not to an earlier state, not to an earlier
\* unit, and a unit is retried only after its first attempt
MovesForward ==
  /\ RankOf(pc') >= RankOf(pc)
  /\ idx' >= idx
  /\ pc = "retry" => (pc' # "retry" /\ (pc' = "attempt1" => idx' > idx))
  /\ pc = "attempt1" => (pc' = "retry" => idx' = idx) /\ (pc' = "attempt1" => idx' > idx)

HomeworkOutput ==
  pc = "done" /\ req.tool = "Homework Explain" /\ response.kind = "output"
FallbackDoc == fallbackHomeworkExplainFromLabels(detectProblemLabels(materialText))
\* the results of the path taken: the accepted outputs, else the salvage
\* result when it passed the gate, else the fallback document
ResultSet ==
  IF outputs # <<>> THEN outputs
  ELSE IF ~looksTooShortHomeworkExplain(out) THEN <<out>>
  ELSE <<FallbackDoc>>

\* C21 (as claimed): the answer of a Homework Explain request is the Joiner
\* applied to the results of the path taken.
C21_AnswerIsJoinOfResultSet ==
  HomeworkOutput => response.body = safeJoin(ResultSet)

\* the answer is the join of the accepted outputs, or the salvage result as
\* ensureEndMarker left it, or the fallback document
AnswerOfPath ==
  HomeworkOutput
    => response.body =
         (IF outputs # <<>> THEN safeJoin(outputs)
          ELSE IF ~looksTooShortHomeworkExplain(out) THEN out
          ELSE FallbackDoc)

\* What holds of C21: the handler moves through its states forward only,
\* the Joiner is applied on the path with accepted outputs only, the salvage
\* result and the fallback document being returned as they are, and every
\* request is answered.
C21_ForwardOnlyAndAnswered ==
  /\ [][MovesForward]_vars
  /\ []AnswerOfPath
  /\ <>(pc = "done")

\* a request that went through every state: units tried and retried,
\* salvage rejected, fallback returned
C21_Witness ==
  /\ HomeworkOutput /\ outputs = <<>>
  /\ CallsOfKind("retry") # {} /\ CallsOfKind("salvage") # {}
  /\ looksTooShortHomeworkExplain(out)
  /\ response.body = FallbackDoc

(***************************************************************************)
(* Attempt handling: ensureEndMarker, then the Quality Gate (specification *)
(* SpecEnsure)                                                             *)
(***************************************************************************)
\* A generation result is made from a description: whitespace in front or
\* not, a body or none, and what follows it.  The body is a three-header
\* answer as in GateInputs, about the thresholds of the gate.
EnsureInputs ==
  [lead : BOOLEAN, body : BOOLEAN,
   ask : {"ASK"}, met : {TRUE}, pit : BOOLEAN, bullets : {5, 6}, mark : {"-"},
   len : {219, 220},
   tail : {"none", "ws", "end", "endnl", "endend"}]

EnsureText(d) ==
  (IF d.lead THEN <<SP, NL>> ELSE <<>>)
    \o (IF d.body THEN BaseBody(d) \o Padding(d) ELSE <<>>)
    \o (CASE d.tail = "none" -> <<>>
          [] d.tail = "ws" -> <<NL, SP>>
          [] d.tail = "end" -> <<NL, END>>
          [] d.tail = "endnl" -> <<SP, END, NL, SP>>
          [] d.tail = "endend" -> <<NL, END, NL, END>>)

\* materialText holds resp.output_text
InitEnsure ==
  /\ req \in EnsureInputs
  /\ pc = "ensure"
  /\ materialText = EnsureText(req)
  /\ out = <<>>
  /\ problems = <<>>
  /\ idx = 0
  /\ outputs = <<>>
  /\ calls = <<>>
  /\ response = NoResponse

\* let out = ensureEndMarker(resp.output_text ?? "")
EnsureApply ==
  /\ pc = "ensure"
  /\ out' = ensureEndMarker(materialText)
  /\ pc' = "gate"
  /\ UNCHANGED <<req, materialText, problems, idx, outputs, calls, response>>

NextEnsure == EnsureApply \/ GateApply

SpecEnsure == InitEnsure /\ [][NextEnsure]_vars

\* C22: ensureEndMarker returns the empty string for an empty or
\* whitespace-only text, and that result is rejected by the gate; for any
\* other text it returns the trimmed text, with the sentinel appended exactly
\* when the trimmed text does not end with it.
C22_EmptyStaysEmpty ==
  pc # "ensure"
    => /\ Trim(materialText) = <<>>
            => /\ out = <<>>
               /\ pc = "done" => response.status = 0
       /\ (Trim(materialText) # <<>> /\ EndsWithEND(Trim(materialText)))
            => out = Trim(materialText)
       /\ (Trim(materialText) # <<>> /\ ~EndsWithEND(Trim(materialText)))
            => /\ out = Trim(materialText) \o <<NL, END>>
               /\ SentinelCount(out) = SentinelCount(materialText) + 1

\* a whitespace-only generation result, left empty and rejected
C22_Witness ==
  /\ pc = "done" /\ Len(materialText) > 0 /\ Trim(materialText) = <<>>
  /\ out = <<>> /\ response.status = 0

UnitCallReturns ==
  /\ pc \in {"attempt1", "retry"}
  /\ calls'[Len(calls)].result # "throw"

\* out' is the text of the attempt that returned: it is pushed exactly when
\* it passes the gate; after attempt 1 the retry call is made exactly when it
\* fails; after the retry no further call is made for the unit
AttemptHandled ==
  UnitCallReturns
    => /\ outputs' = IF looksTooShortHomeworkExplain(out') THEN outputs
                     ELSE Append(outputs, out')
       /\ pc = "attempt1"
            => /\ (pc' = "retry") <=> looksTooShortHomeworkExplain(out')
               /\ pc' = "retry"
                    => /\ idx' = idx
                       /\ calls'[Len(calls')] = Call("retry", idx)
       /\ pc = "retry" => (pc' = "attempt1" => idx' > idx) /\ pc' # "retry"

AcceptedAllPass ==
  \A i \in 1..Len(outputs) : ~looksTooShortHomeworkExplain(outputs[i])

\* C23: the text of an attempt is added to the accepted outputs exactly when
\* it passes the gate, the retry is made exactly when attempt 1 fails and
\* only once, and every accepted output passes the gate.
C23_OutputIffAttemptPasses ==
  /\ [][AttemptHandled]_vars
  /\ []AcceptedAllPass

\* two units were retried, the retry of one passed and the retry of the
\* other returned a non-empty text that was rejected; the answer holds one
\* output
C23_Witness ==
  /\ pc = "done" /\ response.kind = "output" /\ Len(outputs) = 1
  /\ Cardinality(CallsOfKind("retry")) = 2
  /\ \A i \in CallsOfKind("retry") : calls[i].result = "text"
  /\ response.body = safeJoin(outputs)

(***************************************************************************)
(* The second definition of POST (the anchor-based variant): the end of    *)
(* its Homework Explain branch (specification SpecSecond)                  *)
(***************************************************************************)
MinBodyLen2 == 320
MinMaterialNonWs2 == 200

\* looksTooShortHomeworkExplain of the second definition
AcceptsBody2(body) ==
  /\ HasPhrase(body, {"ASK", "ask"})
  /\ HasPhrase(body, {"MET"})
  /\ HasPhrase(body, {"PIT"})
  /\ BulletMatches(body) >= MinBullets
  /\ StrLen(body) >= MinBodyLen2
looksTooShortHomeworkExplain2(text) == ~AcceptsBody2(Trim(StripEndMarker(text)))

\* the material of a request that got past the guards of the second POST
Materials2 ==
  { m \in Materials \cup FanMaterials : NonWsLen(m) >= MinMaterialNonWs2 }
\* the accepted outputs its loop over the units can end with
LoopOutputs2 ==
  { os \in {<<>>} \cup SeqsUpTo({GoodText, AltText}, 2) :
      \A i \in 1..Len(os) : ~looksTooShortHomeworkExplain2(ensureEndMarker(os[i])) }

\* the second POST after its loop over problems.slice(0, maxProblems)
InitSecond ==
  /\ req \in { [tool |-> "Homework Explain", notes |-> m, pdf |-> NoPdf,
                apiKey |-> TRUE] : m \in Materials2 }
  /\ pc = "loopend"
  /\ materialText = req.notes
  /\ problems = <<>>
  /\ idx = 0
  /\ outputs \in { [i \in 1..Len(os) |-> ensureEndMarker(os[i])] : os \in LoopOutputs2 }
  /\ out = <<>>
  /\ calls = <<>>
  /\ response = NoResponse

\* if (!outputs.length) { whole-doc salvage call } else return the join
LoopEnds2 ==
  /\ pc = "loopend"
  /\ UNCHANGED <<req, materialText, problems, idx, outputs, out>>
  /\ IF outputs = <<>>
     THEN /\ pc' = "salvage"
          /\ calls' = Append(calls, Call("salvage", 0))
          /\ UNCHANGED response
     ELSE Respond(OutputResponse(safeJoin(outputs)), calls)

\* mutant: the salvage result goes through the gate, the fallback document
\* replacing a rejected one
Salvage2MutGated(r) ==
  /\ pc = "salvage"
  /\ r.kind # "throw"
  /\ out' = ensureEndMarker(OutputText(r, <<>>))
  /\ UNCHANGED <<req, materialText, problems, idx, outputs>>
  /\ IF ~looksTooShortHomeworkExplain2(out')
     THEN Respond(OutputResponse(out'), Returned(r))
     ELSE Respond(OutputResponse(fallbackHomeworkExplainFromLabels(
                                   detectProblemLabels(materialText))),
                  Returned(r))

\* the salvage call of the second POST returns
Salvage2Returns(r) ==
  /\ pc = "salvage"
  /\ r.kind # "throw"
  /\ out' = ensureEndMarker(OutputText(r, <<>>))
  /\ UNCHANGED <<req, materialText, problems, idx, outputs>>
  /\ IF out' # <<>>
     THEN Respond(OutputResponse(out'), Returned(r))
     ELSE Respond(ErrorResponse(500), Returned(r))

NextSecond ==
  \/ LoopEnds2
  \/ \E r \in GenResults : Salvage2Returns(r)
  \/ GenerationThrows

SpecSecond == InitSecond /\ [][NextSecond]_vars

\* C24: in the second POST, when no unit was accepted and the salvage call
\* returned, the answer is the salvage result whenever that is not empty,
\* whatever the gate says of it, and status 500 when it is empty; the
\* fallback document is never the answer.
C24_SalvageReturnedUngated ==
  (pc = "done" /\ CallsOfKind("salvage") # {}
     /\ calls[Len(calls)].result # "throw")
    => /\ out # <<>> => response = OutputResponse(out)
       /\ out = <<>> => response = ErrorResponse(500)

\* a salvage result without the Common pitfalls header, returned as the
\* answer
C24_Witness ==
  /\ pc = "done" /\ CallsOfKind("salvage") # {}
  /\ out # <<>> /\ looksTooShortHomeworkExplain2(out)
  /\ response = OutputResponse(out)

\* an empty salvage result answered with status 500
C24_WitnessEmpty ==
  /\ pc = "done" /\ CallsOfKind("salvage") # {}
  /\ calls[Len(calls)].result \in {"empty", "undefined"}
  /\ response = ErrorResponse(500)

\* C26: for every list of labels the fallback document passes the gate: it
\* has the three headers, at least MinBullets bullets and a body of at least
\* MinBodyLen characters.
C26_FallbackPassesGate ==
  pc = "done"
    => /\ ~looksTooShortHomeworkExplain(response.body)
       /\ HasPhrase(response.body, {"ASK"})
       /\ HasPhrase(response.body, {"MET"})
       /\ HasPhrase(response.body, {"PIT"})
       /\ BulletMatches(response.body) >= MinBullets
       /\ StrLen(StripEndMarker(response.body)) >= MinBodyLen

\* the fallback for the empty list of labels, accepted by the gate
C26_Witness ==
  /\ pc = "done" /\ problems = <<>>
  /\ BlockCount(response.body) = 2
  /\ ~looksTooShortHomeworkExplain(response.body)

(***************************************************************************)
(* detectProblemLabels and the fallback applied to generated material      *)
(* (specification SpecDetect)                                              *)
(***************************************************************************)
\* the number of lines the material is drawn from
MaxDetectLines == 13

\* Line i of the pool carries a label made of a number and of suffix
\* i % 4: "k. text", "k(a) text", "Problem k(b)", " k (a)(ii) text".  The
\* numbers are not in ascending order and every fifth has two digits.
DetectNum(i) ==
  (IF i % 5 = 0 THEN <<Ch("1")>> ELSE <<>>) \o <<Ch(DigitOf(((2 * i) % 3) + 1))>>
DetectLine(i) ==
  CASE i % 4 = 0 -> DetectNum(i) \o <<Ch("."), SP, W(5)>>
    [] i % 4 = 1 -> DetectNum(i) \o LabelSuffix(1) \o <<SP, W(5)>>
    [] i % 4 = 2 -> <<Ch("Problem"), SP>> \o DetectNum(i) \o LabelSuffix(2)
    [] i % 4 = 3 -> <<SP>> \o DetectNum(i) \o <<SP>> \o LabelSuffix(3) \o <<SP, W(3)>>
\* the label line i is written to carry
DetectLabel(i) == DetectNum(i) \o LabelSuffix(i % 4)
\* the labels of lines a..b: a bare number counts when some line has a
\* lettered part
DetectExpected(a, b) ==
  { DetectLabel(i) : i \in { j \in a..b : j % 4 # 0 } }
    \cup (IF \E j \in a..b : j % 4 # 0
          THEN { DetectLabel(i) : i \in { j \in a..b : j % 4 = 0 } }
          ELSE {})

\* req names the lines a..b of the pool the material is made of
InitDetect ==
  /\ req \in { [a |-> a, b |-> b] : a \in 1..MaxDetectLines, b \in 1..MaxDetectLines }
  /\ req.a <= req.b
  /\ pc = "detect"
  /\ materialText = Doc([i \in 1..(req.b - req.a + 1) |-> DetectLine(req.a + i - 1)])
  /\ problems = <<>>
  /\ idx = 0
  /\ outputs = <<>>
  /\ out = <<>>
  /\ calls = <<>>
  /\ response = NoResponse

\* const labels = detectProblemLabels(materialText), kept in problems
DetectApply ==
  /\ pc = "detect"
  /\ problems' = detectProblemLabels(materialText)
  /\ pc' = "fallback"
  /\ UNCHANGED <<req, materialText, idx, outputs, out, calls, response>>

NextDetect == DetectApply \/ FallbackApply

SpecDetect == InitDetect /\ [][NextDetect]_vars

\* the labels of the blocks of doc, in order: what stands between [ and ]
BlockStarts(doc) == { i \in 1..Len(doc) : doc[i].c = "[" }
BlockStart(doc, k) ==
  CHOOSE i \in BlockStarts(doc) :
    Cardinality({ j \in BlockStarts(doc) : j < i }) = k - 1
BlockLabelAt(doc, i) ==
  SubSeq(doc, i + 1,
         (CHOOSE j \in (i + 1)..Len(doc) :
            doc[j].c = "]" /\ \A r \in (i + 1)..(j - 1) : doc[r].c # "]") - 1)
BlockLabelsOf(doc) ==
  [k \in 1..Cardinality(BlockStarts(doc)) |-> BlockLabelAt(doc, BlockStart(doc, k))]

FallbackLabelsAsClaimed(labs, expected) ==
  /\ Len(labs) <= MaxFallbackBlocks
  /\ \A i \in 1..Len(labs) : \A j \in 1..Len(labs) : i < j => labs[i] # labs[j]
  /\ IF Cardinality(expected) < MinFallbackLabels
     THEN labs = HomeworkLabels
     ELSE /\ \A i \in 1..Len(labs) : labs[i] \in expected
          /\ Len(labs) = (IF Cardinality(expected) < MaxFallbackBlocks
                          THEN Cardinality(expected) ELSE MaxFallbackBlocks)
          /\ \A i \in 1..Len(labs) : \A j \in 1..Len(labs) :
               i < j => ParseInt(labs[i]) <= ParseInt(labs[j])
          \* the labels left out are the last ones
          /\ \A l \in expected :
               (\A i \in 1..Len(labs) : labs[i] # l)
                 => ParseInt(l) >= ParseInt(labs[Len(labs)])

\* C25: the blocks of the fallback document carry the labels written in the
\* material, each once, in ascending order of their number, at most
\* MaxFallbackBlocks of them; with fewer than MinFallbackLabels labels in the
\* material the blocks are Homework-1 and Homework-2.
C25_BlocksAreDetectedLabels ==
  pc = "done"
    => /\ Cardinality(DetectExpected(req.a, req.b)) = Len(problems)
       /\ FallbackLabelsAsClaimed(BlockLabelsOf(response.body),
                                  DetectExpected(req.a, req.b))

\* material with a repeated label and a two-digit number written before
\* smaller ones: more than MaxFallbackBlocks labels detected,
\* MaxFallbackBlocks blocks written
C25_Witness ==
  /\ pc = "done"
  /\ req.b - req.a + 1 > Len(problems)
  /\ Len(problems) > MaxFallbackBlocks
  /\ Cardinality(BlockStarts(response.body)) = MaxFallbackBlocks
  /\ ParseInt(problems[Len(problems)]) > 3

\* material with a single label, answered with the two default blocks
C25_WitnessDefault ==
  /\ pc = "done" /\ Len(problems) = 1
  /\ BlockLabelsOf(response.body) = HomeworkLabels

(***************************************************************************)
(* What the units of splitIntoProblems leave out (specification SpecSplit) *)
(***************************************************************************)
\* the units emitted for the document: those expected from its structure
\* that pass the two length filters
EmittedUnits ==
  { u \in UnitsByRomans : u.seg > TopMinNonWs /\ u.size > UnitMinNonWs }
\* the text of an expected unit: its label line when it is a part, then the
\* lines it starts and ends at
ExpectedText(L, u) ==
  (IF Len(u.label) > 1 THEN u.label \o <<NL>> ELSE <<>>)
    \o Doc(SubSeq(L, u.at, u.end))
RECURSIVE TextsInOrder(_, _)
RECURSIVE TextsFrom(_, _, _)
TextsFrom(L, us, first) == <<ExpectedText(L, first)>> \o TextsInOrder(L, us \ {first})
TextsInOrder(L, us) ==
  IF us = {} THEN <<>>
  ELSE TextsFrom(L, us, CHOOSE u \in us : \A v \in us : u.at <= v.at)

\* line i of the document is in an emitted unit
LineEmitted(us, i) == \E u \in us : u.at <= i /\ i <= u.end
FirstOf(set) == CHOOSE i \in set : \A j \in set : i <= j

\* the lines before the first top-level marker
PreambleLines(L) == 1..(FirstOf(TopLinesOf(L)) - 1)
\* the lines from the top-level marker at t to the first lettered marker of
\* its segment
StemLines(L, t) ==
  IF LetterLinesIn(L, t, StretchEnd(t, TopLinesOf(L), Len(L))) = {} THEN {}
  ELSE t..(FirstOf(LetterLinesIn(L, t, StretchEnd(t, TopLinesOf(L), Len(L)))) - 1)
\* the lines from the lettered marker at j, in the segment that ends at e,
\* to the first roman marker of its part
IntroLinesIn(j, romans) == IF romans = {} THEN {} ELSE j..(FirstOf(romans) - 1)
IntroLines(L, j, e) ==
  IntroLinesIn(j, RomanLinesIn(L, j, StretchEnd(j, LetterLinesIn(L, j, e), e)))
LeftOutLines(L) ==
  PreambleLines(L)
    \cup UNION { StemLines(L, t) : t \in TopLinesOf(L) }
    \cup UNION { UNION { IntroLines(L, j, StretchEnd(t, TopLinesOf(L), Len(L))) :
                           j \in LetterLinesIn(L, t, StretchEnd(t, TopLinesOf(L), Len(L))) } :
                 t \in TopLinesOf(L) }

UnitsLeaveOut(L, us) ==
  /\ problems = TextsInOrder(L, us)
  /\ \A i \in LeftOutLines(L) : ~LineEmitted(us, i)
  \* a unit made of a part does not hold the "N." of the stem
  /\ \A k \in 1..Len(problems) :
       Len(SplitLines(problems[k])[1]) > 1 /\ SplitLines(problems[k])[1][2].c = "("
         => \A e \in 1..Len(problems[k]) : problems[k][e].c # "."

\* C28: for a document with top-level markers the units are the texts of
\* the expected units, each starting at its own marker: the lines before
\* the first top-level marker, the lines from a top-level marker to the
\* first lettered marker of its segment, and the lines from a lettered
\* marker to the first roman marker of its part are in no unit.
C28_StemAndPreambleLeftOut ==
  (pc = "done" /\ HasTopMarker)
    => UnitsLeaveOut(SplitLines(materialText), EmittedUnits)

\* a line of text, "1. ...", "(a) ...", "(ii) ...": the only unit is
\* 1(a)(ii), made of the last line
C28_Witness ==
  /\ pc = "done"
  /\ materialText = Doc(<< <<W(50)>>, TopLine(1, 20), PartLine("a", 130),
                           RomanLine(130) >>)
  /\ problems = << <<Ch("1"), Ch("("), Ch("a"), Ch(")"), Ch("("), Ch("i"),
                     Ch("i"), Ch(")"), NL>> \o RomanLine(130) >>
  /\ LeftOutLines(SplitLines(materialText)) = {1, 2, 3}

(***************************************************************************)
(* The tracking route and its rate limiter (specification SpecTrack)       *)
(***************************************************************************)
RL_WINDOW_MS == 60000
RL_MAX == 120

\* the number of windows the clock runs over, the milliseconds it is read at
\* after the start of each, and the number of requests of the second key
MaxWindows == 2
MaxJitter == 1
MaxOtherRequests == 2

\* The state of the route is kept in the variables of the module: the Map
\* buckets in problems and the clock Date.now() in idx; outputs and calls
\* hold what is observed of the run: for each key the window as counted from
\* its first allowed request, and the number of requests of the second key.
buckets == problems
now == idx
windows == outputs
otherRequests == calls

RlKeys == {"client", "other"}
NoBucket == [count |-> 0, resetAt |-> 0]
NoWindow == [start |-> 0, allowed |-> 0]
\* the values Date.now() is read at; it does not go back
Times == { k * RL_WINDOW_MS + e : k \in 0..MaxWindows, e \in 0..MaxJitter }
TrackBodies == {"valid", "invalid_json", "invalid_event"}

InitTrack ==
  /\ pc = "track"
  /\ buckets = [k \in RlKeys |-> NoBucket]
  /\ now = 0
  /\ windows = [k \in RlKeys |-> NoWindow]
  /\ otherRequests = 0
  /\ req = [key |-> "none", body |-> "none"]
  /\ response = NoResponse
  /\ materialText = <<>>
  /\ out = <<>>

\* mutant: the request that finds the count at RL_MAX is still counted
RateLimitMutOneMore(b, t) ==
  IF b = NoBucket \/ t > b.resetAt
  THEN [ok |-> TRUE, bucket |-> [count |-> 1, resetAt |-> t + RL_WINDOW_MS]]
  ELSE IF b.count > RL_MAX THEN [ok |-> FALSE, bucket |-> b]
  ELSE [ok |-> TRUE, bucket |-> [b EXCEPT !.count = @ + 1]]

\* rateLimit(key) with b = buckets.get(key) (NoBucket when there is none)
\* and t = Date.now(): its verdict and the bucket it leaves
rateLimit(b, t) ==
  IF b = NoBucket \/ t > b.resetAt
  THEN [ok |-> TRUE, bucket |-> [count |-> 1, resetAt |-> t + RL_WINDOW_MS]]
  ELSE IF b.count >= RL_MAX THEN [ok |-> FALSE, bucket |-> b]
  ELSE [ok |-> TRUE, bucket |-> [b EXCEPT !.count = @ + 1]]

\* the window of a key as observed: it starts at the first allowed request
\* and at the first one allowed after it has expired
WindowAfter(w, t, ok) ==
  IF ~ok THEN w
  ELSE IF w = NoWindow \/ t > w.start + RL_WINDOW_MS
  THEN [start |-> t, allowed |-> 1]
  ELSE [w EXCEPT !.allowed = @ + 1]

TrackResponse(rl, body) ==
  IF ~rl.ok THEN ErrorResponse(429)
  ELSE IF body # "valid" THEN ErrorResponse(400)
  ELSE [kind |-> "ok", status |-> 200, body |-> <<>>]

TrackAnswers(k, body, rl) ==
  /\ buckets' = [buckets EXCEPT ![k] = rl.bucket]
  /\ windows' = [windows EXCEPT ![k] = WindowAfter(@, now, rl.ok)]
  /\ response' = TrackResponse(rl, body)
  /\ req' = [key |-> k, body |-> body]

\* POST of the tracking route for a request of key k
TrackPost(k, body) ==
  /\ pc = "track"
  /\ k = "other" => otherRequests < MaxOtherRequests
  /\ otherRequests' = IF k = "other" THEN otherRequests + 1 ELSE otherRequests
  /\ TrackAnswers(k, body, rateLimit(buckets[k], now))
  /\ UNCHANGED <<pc, now, materialText, out>>

\* time passes
Tick ==
  /\ pc = "track"
  /\ \E t \in Times : t > now /\ now' = t
  /\ UNCHANGED <<pc, req, buckets, windows, otherRequests, response, materialText, out>>

NextTrack ==
  \/ \E k \in RlKeys, body \in TrackBodies : TrackPost(k, body)
  \/ Tick

SpecTrack == InitTrack /\ [][NextTrack]_vars

\* a step in which a request is answered
TrackStep == now' = now /\ req'.key \in RlKeys
InWindow(w, t) == w # NoWindow /\ t <= w.start + RL_WINDOW_MS
\* how the request of a step is answered, by the window of its key
AnsweredByWindow(w, b, b2) ==
  /\ (InWindow(w, now) /\ w.allowed >= RL_MAX)
       => /\ response'.status = 429
          /\ buckets' = buckets
  /\ (InWindow(w, now) /\ w.allowed < RL_MAX)
       => /\ response'.status # 429
          /\ b2 = [b EXCEPT !.count = @ + 1]
  /\ ~InWindow(w, now)
       => /\ response'.status # 429
          /\ b2.count = 1
          /\ b2.resetAt = now + RL_WINDOW_MS
TrackStepAsClaimed ==
  TrackStep
    => /\ AnsweredByWindow(windows[req'.key], buckets[req'.key], buckets'[req'.key])
       /\ \A k \in RlKeys \ {req'.key} : buckets'[k] = buckets[k]
WindowsBounded120 ==
  \A k \in RlKeys :
    /\ windows[k].allowed <= RL_MAX
    /\ buckets[k].count = windows[k].allowed

\* C29: for each key at most RL_MAX requests are allowed in the window of
\* RL_WINDOW_MS that starts at its first counted request; a further request
\* in the window is answered 429 and leaves the buckets as they are; the
\* first request after the window is allowed and starts a window with
\* count 1; a request changes the bucket of its own key only.
C29_AtMost120PerWindow ==
  /\ []WindowsBounded120
  /\ [][TrackStepAsClaimed]_vars

\* RL_MAX requests were allowed in the window, the next one, made at the
\* last millisecond of the window, is rejected
C29_Witness ==
  /\ pc = "track" /\ req.key = "client" /\ response.status = 429
  /\ windows["client"].allowed = RL_MAX
  /\ now = windows["client"].start + RL_WINDOW_MS

\* a window started after a full one had expired
C29_WitnessReset ==
  /\ pc = "track" /\ req.key = "client" /\ response.status = 200
  /\ windows["client"].allowed = 1
  /\ windows["client"].start > RL_WINDOW_MS
  /\ now = windows["client"].start

(***************************************************************************)
(* The page: onGenerate, the ad countdown and the cooldown (specification  *)
(* SpecAd)                                                                 *)
(***************************************************************************)
AD_SECONDS == 15
\* the largest cooldownSeconds the server answers with
MaxCooldown == 2

\* The state and the refs of the component are kept as one record in req;
\* response holds what fetch resolved with, pc the await onGenerate is at.
page == req
res == response

NoJson == [kind |-> "none", status |-> 0, body |-> 0]
\* what the server can answer: a result with its cooldownSeconds, or a
\* failure (res.ok false or json.ok false); body holds cooldownSeconds
FetchResults ==
  { [kind |-> "ok", status |-> 200, body |-> cd] : cd \in 0..MaxCooldown }
    \cup { [kind |-> "failed", status |-> 500, body |-> 0] }

InitAd ==
  /\ pc = "idle"
  /\ page \in { [needsVideoAd |-> v, adRemaining |-> 0, adRemainingRef |-> 0,
                 showAdOverlay |-> FALSE, adTimerRef |-> FALSE,
                 cooldownRemaining |-> 0, cooldownTimerRef |-> FALSE,
                 apiResult |-> "null", isGenerating |-> FALSE, error |-> "null"] :
                v \in BOOLEAN }
  /\ res = NoJson
  /\ materialText = <<>>
  /\ problems = <<>>
  /\ idx = 0
  /\ outputs = <<>>
  /\ out = <<>>
  /\ calls = <<>>

\* startAdCountdown, and the effect that copies adRemaining into the ref:
\* React runs the effects of the render of a click before any later task
WithAdStarted(p) ==
  IF p.needsVideoAd
  THEN [p EXCEPT !.showAdOverlay = TRUE, !.adRemaining = AD_SECONDS,
                 !.adRemainingRef = AD_SECONDS, !.adTimerRef = TRUE]
  ELSE p

\* onGenerate up to await fetch(...)
Generate ==
  /\ pc = "idle"
  /\ ~page.isGenerating
  /\ page.cooldownRemaining = 0
  /\ page' = [WithAdStarted(page) EXCEPT !.error = "null", !.apiResult = "null",
                                         !.isGenerating = TRUE]
  /\ pc' = "fetch"
  /\ res' = NoJson
  /\ UNCHANGED <<materialText, problems, idx, outputs, out, calls>>

\* await fetch(...) resolves
FetchReturns(r) ==
  /\ pc = "fetch"
  /\ res' = r
  /\ pc' = "text"
  /\ UNCHANGED <<req, materialText, problems, idx, outputs, out, calls>>

\* await fetch(...) rejects: the catch clause
FetchThrows ==
  /\ pc = "fetch"
  /\ page' = [page EXCEPT !.error = "msg", !.isGenerating = FALSE]
  /\ pc' = "idle"
  /\ UNCHANGED <<response, materialText, problems, idx, outputs, out, calls>>

\* startCooldown(cd)
WithCooldown(p, cd) ==
  IF cd > 0 THEN [p EXCEPT !.cooldownRemaining = cd, !.cooldownTimerRef = TRUE]
  ELSE p

\* setApiResult(json); setIsGenerating(false)
Displayed(p) == [p EXCEPT !.apiResult = "json", !.isGenerating = FALSE]

\* the success path after await res.text(), up to the hold
TextSucceeds(p) ==
  IF p.needsVideoAd
  THEN /\ page' = WithCooldown(p, res.body)
       /\ pc' = "hold"
  ELSE /\ page' = Displayed(WithCooldown(p, res.body))
       /\ pc' = "idle"

\* await res.text() resolves: the failure path, or the success path
TextReturns ==
  /\ pc = "text"
  /\ IF res.kind = "failed"
     THEN /\ page' = [page EXCEPT !.error = "msg", !.isGenerating = FALSE,
                                  !.showAdOverlay = IF @ /\ page.needsVideoAd THEN FALSE ELSE @,
                                  !.adRemaining = IF page.needsVideoAd THEN 0 ELSE @]
          /\ pc' = "idle"
     ELSE TextSucceeds(page)
  /\ UNCHANGED <<response, materialText, problems, idx, outputs, out, calls>>

\* a tick of the interval of the hold that finds adRemainingRef.current at 0
HoldPoll ==
  /\ pc = "hold"
  /\ page.adRemainingRef = 0
  /\ page' = Displayed(page)
  /\ pc' = "idle"
  /\ UNCHANGED <<response, materialText, problems, idx, outputs, out, calls>>

\* a tick of the interval of startAdCountdown
AdTick ==
  /\ page.adTimerRef
  /\ page' = IF page.adRemaining <= 1
             THEN [page EXCEPT !.adRemaining = 0, !.adTimerRef = FALSE,
                               !.showAdOverlay = FALSE]
             ELSE [page EXCEPT !.adRemaining = @ - 1]
  /\ UNCHANGED <<pc, response, materialText, problems, idx, outputs, out, calls>>

\* useEffect(() => { adRemainingRef.current = adRemaining }, [adRemaining])
\* after a render that no click caused
AdEffect ==
  /\ page.adRemainingRef # page.adRemaining
  /\ page' = [page EXCEPT !.adRemainingRef = page.adRemaining]
  /\ UNCHANGED <<pc, response, materialText, problems, idx, outputs, out, calls>>

\* a tick of the interval of startCooldown
CooldownTick ==
  /\ page.cooldownTimerRef
  /\ page' = IF page.cooldownRemaining <= 1
             THEN [page EXCEPT !.cooldownRemaining = 0, !.cooldownTimerRef = FALSE]
             ELSE [page EXCEPT !.cooldownRemaining = @ - 1]
  /\ UNCHANGED <<pc, response, materialText, problems, idx, outputs, out, calls>>

NextAd ==
  \/ Generate
  \/ \E r \in FetchResults : FetchReturns(r)
  \/ FetchThrows
  \/ TextReturns
  \/ HoldPoll
  \/ AdTick
  \/ AdEffect
  \/ CooldownTick

SpecAd == InitAd /\ [][NextAd]_vars

\* the request is in flight while the ad has not run
SentWithoutWaiting ==
  (pc = "idle" /\ pc' = "fetch" /\ page.needsVideoAd)
    => page'.adRemaining = AD_SECONDS /\ page'.showAdOverlay
\* a result is displayed when the countdown has reached 0 only
ShownAfterAd ==
  (page.needsVideoAd /\ page.apiResult = "null" /\ page'.apiResult # "null")
    => /\ page.adRemaining = 0
       /\ ~page'.isGenerating
ResultOnlyAfterAd ==
  (page.needsVideoAd /\ page.apiResult # "null")
    => page.adRemaining = 0 /\ ~page.showAdOverlay /\ page.error = "null"
FailureRemovesOverlay ==
  (page.needsVideoAd /\ page.error # "null")
    => /\ ~page.showAdOverlay
       /\ page.apiResult = "null"
       /\ ~page.isGenerating

\* C30 (as claimed): for a free-tier heavy tool a result is on display only
\* when the countdown has reached 0, and after a failed request the error
\* is shown, the overlay is gone and no result is displayed.
C30_HeldUntilAdOverAndFailureClears ==
  ResultOnlyAfterAd /\ FailureRemovesOverlay

\* What holds of C30: the request is sent while the ad is at AD_SECONDS, a
\* result is displayed only in a step taken with the countdown at 0, and a
\* failure never displays a result.
C30_HeldUntilAdOver ==
  /\ [][SentWithoutWaiting /\ ShownAfterAd]_vars
  /\ [](ResultOnlyAfterAd /\ (page.error # "null" => page.apiResult = "null"))

\* the response arrived during the ad and is held
C30_WitnessHeld ==
  /\ pc = "hold" /\ page.needsVideoAd
  /\ page.adRemaining > 0 /\ page.showAdOverlay /\ page.apiResult = "null"

\* the held result on display after the ad
C30_WitnessShown ==
  /\ pc = "idle" /\ page.needsVideoAd /\ page.apiResult = "json"
  /\ page.adRemaining = 0 /\ ~page.isGenerating

====
